---------------------------- MODULE Spec2Model ----------------------------
(***************************************************************************)
(* Word / sentence comprehension classification of SelfStudyHebrew.        *)
(*                                                                         *)
(* A character is its Unicode code point (every character used is in the   *)
(* Basic Multilingual Plane, so a JavaScript string is the sequence of its *)
(* code points and .length is Len).  A string is a sequence of characters, *)
(* a JavaScript array of strings that is only searched with includes() is  *)
(* the set of its elements, an array that is iterated is a sequence.       *)
(***************************************************************************)
EXTENDS Integers, Sequences, FiniteSets, TLC

VARIABLES
    word,           \* the token handed to a word classifier
    text,           \* the sentence / cue text handed to a sentence check
    units,          \* the text units (subtitle texts, page text) of an aggregate pass
    matureWords,    \* vocabulary snapshot: mature words
    learningWords,  \* vocabulary snapshot: learning words
    call,           \* the operation that has run ("none" before any has)
    ret,            \* what that operation returned
    args,           \* the arguments of that operation that are not state
    getWords,       \* how the 'getWords' message of that operation settled
    lastIndex,      \* HEBREW_WORD_REGEX.lastIndex, the cursor of the shared
                    \* global regular expression (0-based, as in the code)
    comprehensionStats, \* SubtitleReaderBase: this.comprehensionStats
    \* the content coordinator (its vocabulary is matureWords / learningWords)
    highlightEnabled,           \* let highlightEnabled
    sentenceHighlightEnabled,   \* let sentenceHighlightEnabled
    isHighlighted,              \* let isHighlighted
    isSentenceHighlighted,      \* let isSentenceHighlighted
    pageStats,                  \* let pageStats
    highlightTimeout,   \* window.highlightTimeout: the id of the last debounce
                        \* timer set, 0 while undefined
    timers,             \* the pending timers: [id, remaining], remaining the
                        \* milliseconds left before the callback runs
    mutationRecords,    \* the records queued for the MutationObserver
    body,               \* document.body: the elements that hold page text
    pending,            \* the async functions waiting for a reply
    calls,              \* the highlighter functions the last handler called,
                        \* in order
    elapsed             \* milliseconds since the observer last set the timer

coordinatorVars ==
    <<highlightEnabled, sentenceHighlightEnabled, isHighlighted,
      isSentenceHighlighted, pageStats, highlightTimeout, timers,
      mutationRecords, body, pending, calls, elapsed>>

vars ==
    <<word, text, units, matureWords, learningWords, call, ret, args,
      getWords, lastIndex, comprehensionStats, highlightEnabled,
      sentenceHighlightEnabled, isHighlighted, isSentenceHighlighted,
      pageStats, highlightTimeout, timers, mutationRecords, body, pending,
      calls, elapsed>>

\* the coordinator's module-level variables as the script declares them,
\* before initialize() has run, on a page without text
ModuleLevelState ==
    /\ highlightEnabled = TRUE
    /\ sentenceHighlightEnabled = TRUE
    /\ isHighlighted = FALSE
    /\ isSentenceHighlighted = FALSE
    /\ pageStats = [total |-> 0, known |-> 0, potentiallyKnown |-> 0,
                    unknown |-> 0, i1Sentences |-> 0,
                    potentiallyI1Sentences |-> 0]
    /\ highlightTimeout = 0
    /\ timers = {}
    /\ mutationRecords = {}
    /\ body = << >>
    /\ pending = {"initialize"}
    /\ calls = << >>
    /\ elapsed = 0

-----------------------------------------------------------------------------
(* Characters                                                              *)

HEBREW_FIRST == 1424
HEBREW_LAST == 1535
NIKUD_FIRST == 1425
NIKUD_LAST == 1479
VAV == 1493
LAMED == 1500
BET == 1489
SHIN == 1513
MIN_SENTENCE_WORDS == 3
MIN_WORD_LENGTH == 2

\* HEBREW_WORD_REGEX's character class, U+0590..U+05FF
IsHebrewChar(c) == c >= HEBREW_FIRST /\ c <= HEBREW_LAST

\* NIKUD_REGEX's character class, U+0591..U+05C7
IsNikudChar(c) == c >= NIKUD_FIRST /\ c <= NIKUD_LAST

\* the prefixes array of the classifiers, in its order
PREFIXES == <<LAMED, BET, SHIN>>

-----------------------------------------------------------------------------
(* hebrew-text.js                                                          *)

KeepNikud(w) == w

StripFirstNikudOnly(w) ==
    LET marks == {i \in 1..Len(w) : IsNikudChar(w[i])} IN
    IF marks = {} THEN w
    ELSE LET first == CHOOSE i \in marks : \A j \in marks : i <= j IN
         SubSeq(w, 1, first - 1) \o SubSeq(w, first + 1, Len(w))

\* normalizeHebrew: word.replace(NIKUD_REGEX, '')
normalizeHebrew(w) == SelectSeq(w, LAMBDA c : ~IsNikudChar(c))

\* str.substring(1)
Substring1(w) == IF Len(w) <= 1 THEN << >> ELSE SubSeq(w, 2, Len(w))

\* str.startsWith(ch) for a one-character ch
StartsWith(w, ch) == Len(w) >= 1 /\ w[1] = ch

\* array.includes(w)
Includes(words, w) == w \in words

RECURSIVE MatchRuns(_, _, _, _)
MatchRuns(t, i, cur, acc) ==
    IF i > Len(t)
    THEN IF cur = << >> THEN acc ELSE Append(acc, cur)
    ELSE IF IsHebrewChar(t[i])
         THEN MatchRuns(t, i + 1, Append(cur, t[i]), acc)
         ELSE MatchRuns(t, i + 1, << >>,
                        IF cur = << >> THEN acc ELSE Append(acc, cur))

\* text.match(HEBREW_WORD_REGEX) || [] : the maximal runs of Hebrew-block
\* characters, in text order (String.prototype.match with a global regex
\* starts at index 0 whatever lastIndex was)
HebrewMatches(t) == MatchRuns(t, 1, << >>, << >>)

VavAsOrdinaryPrefix(normalizedWord, mature, learning) ==
    IF Includes(mature, normalizedWord) \/ Includes(learning, normalizedWord)
    THEN "known"
    ELSE IF /\ Len(normalizedWord) > 1
            /\ \/ StartsWith(normalizedWord, VAV)
               \/ \E i \in 1..Len(PREFIXES) :
                      StartsWith(normalizedWord, PREFIXES[i])
            /\ \/ Includes(mature, Substring1(normalizedWord))
               \/ Includes(learning, Substring1(normalizedWord))
    THEN "potentially-known"
    ELSE "unknown"

\* getWordKnownType(normalizedWord, matureWords, learningWords)
getWordKnownType(normalizedWord, mature, learning) ==
    IF Includes(mature, normalizedWord) \/ Includes(learning, normalizedWord)
    THEN "known"
    ELSE IF /\ StartsWith(normalizedWord, VAV)
            /\ Len(normalizedWord) > 1
            /\ \/ Includes(mature, Substring1(normalizedWord))
               \/ Includes(learning, Substring1(normalizedWord))
    THEN "known"
    ELSE IF \E i \in 1..Len(PREFIXES) :
               /\ StartsWith(normalizedWord, PREFIXES[i])
               /\ Len(normalizedWord) > 1
               /\ \/ Includes(mature, Substring1(normalizedWord))
                  \/ Includes(learning, Substring1(normalizedWord))
    THEN "potentially-known"
    ELSE "unknown"

\* isWordKnown(normalizedWord, matureWords, learningWords)
isWordKnown(normalizedWord, mature, learning) ==
    getWordKnownType(normalizedWord, mature, learning) = "known"

\* the first index >= i of t that holds character c, 0 when there is none
RECURSIVE IndexFrom(_, _, _)
IndexFrom(t, c, i) ==
    IF i > Len(t) THEN 0
    ELSE IF t[i] = c THEN i
    ELSE IndexFrom(t, c, i + 1)

\* t.replace(/<open>[^<close>]*<close>/g, ''): every span from an opening
\* bracket to the first closing bracket after it is deleted, left to right
RECURSIVE RemoveBracketed(_, _, _)
RemoveBracketed(t, open, close) ==
    LET o == IndexFrom(t, open, 1)
        c == IF o = 0 THEN 0 ELSE IndexFrom(t, close, o + 1)
    IN  IF o = 0 \/ c = 0 THEN t
        ELSE SubSeq(t, 1, o - 1)
                \o RemoveBracketed(SubSeq(t, c + 1, Len(t)), open, close)

ExtractAlwaysIgnoringBrackets(t, minLength, ignoreBrackets) ==
    SelectSeq(HebrewMatches(
                  RemoveBracketed(
                      RemoveBracketed(RemoveBracketed(t, 91, 93), 65288, 65289),
                      40, 41)),
              LAMBDA w : Len(normalizeHebrew(w)) >= minLength)

ExtractByRawLength(t, minLength, ignoreBrackets) ==
    SelectSeq(HebrewMatches(
                  IF ignoreBrackets
                  THEN RemoveBracketed(
                           RemoveBracketed(RemoveBracketed(t, 91, 93),
                                           65288, 65289),
                           40, 41)
                  ELSE t),
              LAMBDA w : Len(w) >= minLength)

ExtractNormalizedByRawLength(t, minLength, ignoreBrackets) ==
    LET words == ExtractByRawLength(t, minLength, ignoreBrackets) IN
    [k \in 1..Len(words) |-> normalizeHebrew(words[k])]

\* extractHebrewWords(text, minLength, ignoreBrackets)
extractHebrewWords(t, minLength, ignoreBrackets) ==
    LET stripped ==
            IF ignoreBrackets
            THEN RemoveBracketed(
                     RemoveBracketed(RemoveBracketed(t, 91, 93), 65288, 65289),
                     40, 41)
            ELSE t
    IN  SelectSeq(HebrewMatches(stripped),
                  LAMBDA w : Len(normalizeHebrew(w)) >= minLength)

-----------------------------------------------------------------------------
(* word-highlighter.js: getWordType(word, matureWords, learningWords)      *)

LearningFirst(normalized, mature, learning) ==
    IF Includes(learning, normalized) THEN "learning"
    ELSE IF Includes(mature, normalized) THEN "mature"
    ELSE "unknown"

\* "Check if word is known as-is": mature first, then learning
ExactType(normalized, mature, learning) ==
    IF Includes(mature, normalized) THEN "mature"
    ELSE IF Includes(learning, normalized) THEN "learning"
    ELSE "unknown"

VavAsPotential(normalized, mature, learning) ==
    IF /\ StartsWith(normalized, VAV)
       /\ Len(normalized) > 1
       /\ \/ Includes(mature, Substring1(normalized))
          \/ Includes(learning, Substring1(normalized))
    THEN "potentially-known"
    ELSE "unknown"

\* the vav step: the word without its leading vav, mature first
VavType(normalized, mature, learning) ==
    IF StartsWith(normalized, VAV) /\ Len(normalized) > 1
    THEN IF Includes(mature, Substring1(normalized)) THEN "mature"
         ELSE IF Includes(learning, Substring1(normalized)) THEN "learning"
         ELSE "unknown"
    ELSE "unknown"

PrefixAsLearning(normalized, mature, learning) ==
    IF \E i \in 1..Len(PREFIXES) :
          /\ StartsWith(normalized, PREFIXES[i])
          /\ Len(normalized) > 1
          /\ \/ Includes(mature, Substring1(normalized))
             \/ Includes(learning, Substring1(normalized))
    THEN "learning"
    ELSE "unknown"

\* the loop over the prefixes: the first prefix whose removal leaves a
\* vocabulary word gives potentially-known
PrefixType(normalized, mature, learning) ==
    IF \E i \in 1..Len(PREFIXES) :
          /\ StartsWith(normalized, PREFIXES[i])
          /\ Len(normalized) > 1
          /\ \/ Includes(mature, Substring1(normalized))
             \/ Includes(learning, Substring1(normalized))
    THEN "potentially-known"
    ELSE "unknown"

\* getWordType: normalize the word, then the first step that matches
getWordType(w, mature, learning) ==
    LET normalized == normalizeHebrew(w) IN
    IF ExactType(normalized, mature, learning) # "unknown"
    THEN ExactType(normalized, mature, learning)
    ELSE IF VavType(normalized, mature, learning) # "unknown"
    THEN VavType(normalized, mature, learning)
    ELSE PrefixType(normalized, mature, learning)

\* highlightTextNode's uniqueWords.add(normalizeHebrew(match[0])) for every
\* match of HEBREW_WORD_REGEX in the text nodes from index i on (getWordType
\* always returns a non-empty string, so every match is added)
RECURSIVE PageUniqueWordsFrom(_, _, _)
PageUniqueWordsFrom(textNodes, i, uniqueWords) ==
    IF i > Len(textNodes) THEN uniqueWords
    ELSE LET matches == HebrewMatches(textNodes[i]) IN
         PageUniqueWordsFrom(textNodes, i + 1,
             uniqueWords \cup
                 {normalizeHebrew(matches[k]) : k \in 1..Len(matches)})

\* highlightWords(matureWords, learningWords): textNodes holds the
\* textContent of the text nodes the TreeWalker accepts, the result is the
\* returned {total, known, unknown}
highlightWords(textNodes, mature, learning) ==
    LET uniqueWords == PageUniqueWordsFrom(textNodes, 1, {})
        total == Cardinality(uniqueWords)
        known == Cardinality({w \in uniqueWords :
                     getWordType(w, mature, learning) \in {"mature", "learning"}})
    IN  [total |-> total, known |-> known, unknown |-> total - known]

-----------------------------------------------------------------------------
(* content coordinator: getWordType(normalizedWord) over the module-level  *)
(* matureWords / learningWords                                             *)

coordinatorGetWordType(normalizedWord, mature, learning) ==
    IF Includes(mature, normalizedWord) THEN "mature"
    ELSE IF Includes(learning, normalizedWord) THEN "learning"
    ELSE IF /\ StartsWith(normalizedWord, VAV)
            /\ Len(normalizedWord) > 1
            /\ Includes(mature, Substring1(normalizedWord))
    THEN "mature"
    ELSE IF /\ StartsWith(normalizedWord, VAV)
            /\ Len(normalizedWord) > 1
            /\ Includes(learning, Substring1(normalizedWord))
    THEN "learning"
    ELSE IF \E i \in 1..Len(PREFIXES) :
               /\ StartsWith(normalizedWord, PREFIXES[i])
               /\ Len(normalizedWord) > 1
               /\ \/ Includes(mature, Substring1(normalizedWord))
                  \/ Includes(learning, Substring1(normalizedWord))
    THEN "potentially-known"
    ELSE "unknown"

-----------------------------------------------------------------------------
(* Anki comprehension statistics and i+1 detection (part_003)              *)

\* the forEach of countUnknownWords: seen is uniqueWordsInSentence
RECURSIVE CountUnknownFrom(_, _, _, _, _, _)
CountUnknownFrom(hebrewWords, i, seen, count, mature, learning) ==
    IF i > Len(hebrewWords) THEN count
    ELSE LET normalized == normalizeHebrew(hebrewWords[i]) IN
         IF Len(normalized) > 0 /\ normalized \notin seen
         THEN CountUnknownFrom(hebrewWords, i + 1, seen \cup {normalized},
                  IF ~isWordKnown(normalized, mature, learning)
                  THEN count + 1 ELSE count,
                  mature, learning)
         ELSE CountUnknownFrom(hebrewWords, i + 1, seen, count, mature, learning)

\* countUnknownWords(hebrewWords, matureWords, learningWords)
countUnknownWords(hebrewWords, mature, learning) ==
    CountUnknownFrom(hebrewWords, 1, {}, 0, mature, learning)

\* the forEach of countWordTypes
RECURSIVE CountTypesFrom(_, _, _, _, _, _)
CountTypesFrom(hebrewWords, i, seen, counts, mature, learning) ==
    IF i > Len(hebrewWords) THEN counts
    ELSE LET normalized == normalizeHebrew(hebrewWords[i])
             type == getWordKnownType(normalized, mature, learning)
         IN
         IF Len(normalized) > 0 /\ normalized \notin seen
         THEN CountTypesFrom(hebrewWords, i + 1, seen \cup {normalized},
                  IF type = "unknown"
                  THEN [counts EXCEPT !.unknownCount = @ + 1]
                  ELSE IF type = "potentially-known"
                  THEN [counts EXCEPT !.potentiallyKnownCount = @ + 1]
                  ELSE counts,
                  mature, learning)
         ELSE CountTypesFrom(hebrewWords, i + 1, seen, counts, mature, learning)

\* countWordTypes(hebrewWords, matureWords, learningWords)
countWordTypes(hebrewWords, mature, learning) ==
    CountTypesFrom(hebrewWords, 1, {},
                   [unknownCount |-> 0, potentiallyKnownCount |-> 0],
                   mature, learning)

\* (sentenceText.match(HEBREW_WORD_REGEX) || [])
\*     .filter(word => normalizeHebrew(word).length > 1)
SentenceWords(sentenceText) ==
    SelectSeq(HebrewMatches(sentenceText),
              LAMBDA w : Len(normalizeHebrew(w)) > 1)

CheckI1NoMinimum(sentenceText, mature, learning) ==
    /\ sentenceText # << >>
    /\ countUnknownWords(SentenceWords(sentenceText), mature, learning) = 1

\* checkIfI1Sentence(sentenceText, matureWords, learningWords)
checkIfI1Sentence(sentenceText, mature, learning) ==
    IF sentenceText = << >> THEN FALSE
    ELSE IF Len(SentenceWords(sentenceText)) < 3 THEN FALSE
    ELSE countUnknownWords(SentenceWords(sentenceText), mature, learning) = 1

\* checkIfPotentiallyI1Sentence(sentenceText, matureWords, learningWords)
checkIfPotentiallyI1Sentence(sentenceText, mature, learning) ==
    IF sentenceText = << >> THEN FALSE
    ELSE IF Len(SentenceWords(sentenceText)) < 3 THEN FALSE
    ELSE LET c == countWordTypes(SentenceWords(sentenceText), mature, learning)
         IN  /\ c.potentiallyKnownCount = 1
             /\ (c.unknownCount = 0 \/ c.unknownCount = 1)

\* the words of the units from index i on, normalized, added to uniqueWords
RECURSIVE UniqueWordsFrom(_, _, _)
UniqueWordsFrom(subs, i, uniqueWords) ==
    IF i > Len(subs) THEN uniqueWords
    ELSE LET hebrewWords == extractHebrewWords(subs[i], 2, FALSE) IN
         UniqueWordsFrom(subs, i + 1,
             uniqueWords \cup
                 {w \in {normalizeHebrew(hebrewWords[k]) :
                             k \in 1..Len(hebrewWords)} : Len(w) > 0})

RECURSIVE TalliesWithoutMinimum(_, _, _, _, _)
TalliesWithoutMinimum(subs, i, tally, mature, learning) ==
    IF i > Len(subs) THEN tally
    ELSE LET hebrewWords == extractHebrewWords(subs[i], 2, FALSE)
             c == countWordTypes(hebrewWords, mature, learning)
         IN
         TalliesWithoutMinimum(subs, i + 1,
             IF c.unknownCount = 1 /\ c.potentiallyKnownCount = 0
             THEN [tally EXCEPT !.i1 = @ + 1]
             ELSE IF /\ c.potentiallyKnownCount = 1
                     /\ (c.unknownCount = 0 \/ c.unknownCount = 1)
             THEN [tally EXCEPT !.potentiallyI1 = @ + 1]
             ELSE tally,
             mature, learning)

\* the i+1 / potentially-i+1 tallies of the units from index i on
RECURSIVE SentenceTalliesFrom(_, _, _, _, _)
SentenceTalliesFrom(subs, i, tally, mature, learning) ==
    IF i > Len(subs) THEN tally
    ELSE LET hebrewWords == extractHebrewWords(subs[i], 2, FALSE)
             c == countWordTypes(hebrewWords, mature, learning)
         IN
         SentenceTalliesFrom(subs, i + 1,
             IF Len(hebrewWords) >= 3
             THEN IF c.unknownCount = 1 /\ c.potentiallyKnownCount = 0
                  THEN [tally EXCEPT !.i1 = @ + 1]
                  ELSE IF /\ c.potentiallyKnownCount = 1
                          /\ (c.unknownCount = 0 \/ c.unknownCount = 1)
                  THEN [tally EXCEPT !.potentiallyI1 = @ + 1]
                  ELSE tally
             ELSE tally,
             mature, learning)

(* JavaScript numbers are IEEE 754 doubles.  A positive double is kept as   *)
(* [m, e]: m the 53 bits of its significand, most significant (a 1)        *)
(* first, e the exponent of the last bit, so that the value is m * 2^e.    *)
(* Every intermediate number below stays under 2^31.                       *)
SIGNIFICAND_BITS == 53

\* the value of a short bit sequence
RECURSIVE BitsValue(_)
BitsValue(bits) ==
    IF Len(bits) = 0 THEN 0
    ELSE 2 * BitsValue(SubSeq(bits, 1, Len(bits) - 1)) + bits[Len(bits)]

\* the lowest `width` bits of a natural number, most significant first
FixedBits(n, width) == [i \in 1..width |-> (n \div (2 ^ (width - i))) % 2]

\* the bit sequence without its leading zeros
StripLeadingZeros(bits) ==
    LET ones == {i \in 1..Len(bits) : bits[i] = 1} IN
    IF ones = {} THEN << >>
    ELSE SubSeq(bits, CHOOSE i \in ones : \A j \in ones : i <= j, Len(bits))

\* bits + 1; carry is 1 when the sum does not fit in Len(bits) bits
IncrementBits(bits) ==
    LET zeros == {i \in 1..Len(bits) : bits[i] = 0} IN
    IF zeros = {} THEN [bits |-> [i \in 1..Len(bits) |-> 0], carry |-> 1]
    ELSE LET last == CHOOSE i \in zeros : \A j \in zeros : j <= i IN
         [bits |-> [i \in 1..Len(bits) |->
                       IF i < last THEN bits[i] ELSE IF i = last THEN 1 ELSE 0],
          carry |-> 0]

\* round to nearest, ties to even: kept the kept bits, roundBit the first
\* dropped bit, sticky whether a later dropped bit is set, exponent the
\* exponent of the last kept bit
RoundToNearestEven(kept, roundBit, sticky, exponent) ==
    IF roundBit = 1 /\ (sticky \/ kept[Len(kept)] = 1)
    THEN LET inc == IncrementBits(kept) IN
         IF inc.carry = 1
         THEN [m |-> <<1>> \o SubSeq(inc.bits, 1, Len(kept) - 1),
               e |-> exponent + 1]
         ELSE [m |-> inc.bits, e |-> exponent]
    ELSE [m |-> kept, e |-> exponent]

\* the least s with k * 2^s >= t
RECURSIVE DivisionShift(_, _, _)
DivisionShift(k, t, s) ==
    IF k >= t THEN s ELSE DivisionShift(2 * k, t, s + 1)

\* (r * 2^j) % t for 0 <= r < t and 0 <= j <= 54: the remainder of the long
\* division of r by t after j quotient bits
RemainderAfter(r, t, j) ==
    LET half == j \div 2
        low == (2 ^ half) % t
        high == (2 ^ (j - half)) % t
    IN  (((r * low) % t) * high) % t

\* knownCount / totalWords as a double, for 0 < k <= t: a leading 1, then
\* the quotient bits of the long division, the 53rd of them the round bit
DoubleDivide(k, t) ==
    LET s == DivisionShift(k, t, 0)
        r == k * (2 ^ s) - t
        quotientBit(j) == IF 2 * RemainderAfter(r, t, j - 1) >= t THEN 1 ELSE 0
    IN  RoundToNearestEven(
            [i \in 1..SIGNIFICAND_BITS |->
                IF i = 1 THEN 1 ELSE quotientBit(i - 1)],
            quotientBit(SIGNIFICAND_BITS),
            RemainderAfter(r, t, SIGNIFICAND_BITS) # 0,
            0 - s - (SIGNIFICAND_BITS - 1))

\* the bits of 100 * m, leading zeros stripped: m is cut in three limbs of
\* 18 bits (after a leading 0) and multiplied limb by limb with carry
HundredTimesBits(m) ==
    LET padded == <<0>> \o m
        limb(n) == BitsValue(SubSeq(padded, 18 * n - 17, 18 * n))
        low == 100 * limb(3)
        middle == 100 * limb(2) + low \div (2 ^ 18)
        high == 100 * limb(1) + middle \div (2 ^ 18)
    IN  StripLeadingZeros(
            FixedBits(high, 25) \o FixedBits(middle % (2 ^ 18), 18)
                \o FixedBits(low % (2 ^ 18), 18))

\* d * 100 as a double
DoubleTimes100(d) ==
    LET product == HundredTimesBits(d.m)
        dropped == Len(product) - SIGNIFICAND_BITS
    IN  RoundToNearestEven(
            SubSeq(product, 1, SIGNIFICAND_BITS),
            product[SIGNIFICAND_BITS + 1],
            \E j \in (SIGNIFICAND_BITS + 2)..Len(product) : product[j] = 1,
            d.e + dropped)

\* Math.round of a positive double below 2^52: the nearest integer, a tie
\* going up, which is the integer part plus the first fraction bit
MathRound(d) ==
    LET integerBits == Len(d.m) + d.e IN
    IF integerBits < 0 THEN 0
    ELSE BitsValue(SubSeq(d.m, 1, integerBits)) + d.m[integerBits + 1]

\* Math.round((knownCount / totalWords) * 100) for 0 <= knownCount <= totalWords
\* and totalWords > 0, in double arithmetic
RoundedPercentage(knownCount, totalWords) ==
    IF knownCount = 0 THEN 0
    ELSE MathRound(DoubleTimes100(DoubleDivide(knownCount, totalWords)))

EmptyAsFullyKnown(knownCount, totalWords) ==
    IF totalWords > 0 THEN RoundedPercentage(knownCount, totalWords) ELSE 100

\* totalWords > 0 ? Math.round((knownCount / totalWords) * 100) : 0
percentage(knownCount, totalWords) ==
    IF totalWords > 0 THEN RoundedPercentage(knownCount, totalWords) ELSE 0

ErrorMarkedStats ==
    [total |-> 0, known |-> 0, potentiallyKnown |-> 0, percentage |-> 0,
     i1Sentences |-> 0, potentiallyI1Sentences |-> 0, error |-> TRUE]

\* the object of the catch branch of calculateComprehensionStats
ZeroStats ==
    [total |-> 0, known |-> 0, potentiallyKnown |-> 0, percentage |-> 0,
     i1Sentences |-> 0, potentiallyI1Sentences |-> 0]

\* calculateComprehensionStats(subtitles) once the getWords reply is in:
\* subs holds the .text of each subtitle
calculateComprehensionStats(subs, mature, learning) ==
    LET uniqueWords == UniqueWordsFrom(subs, 1, {})
        tally == SentenceTalliesFrom(subs, 1, [i1 |-> 0, potentiallyI1 |-> 0],
                                     mature, learning)
        knownCount == Cardinality({w \in uniqueWords :
                         getWordKnownType(w, mature, learning) = "known"})
        potentiallyKnownCount == Cardinality({w \in uniqueWords :
                         getWordKnownType(w, mature, learning)
                             = "potentially-known"})
        totalWords == Cardinality(uniqueWords)
    IN  [total |-> totalWords,
         known |-> knownCount,
         potentiallyKnown |-> potentiallyKnownCount,
         percentage |-> percentage(knownCount, totalWords),
         i1Sentences |-> tally.i1,
         potentiallyI1Sentences |-> tally.potentiallyI1]

\* SubtitleReaderBase.calculateComprehensionStats: the object returned when
\* this.subtitles.length === 0
NoSubtitlesStats ==
    [total |-> 0, known |-> 0, potentiallyKnown |-> 0, percentage |-> 0,
     i1Sentences |-> 0, potentiallyI1Sentences |-> 0]

-----------------------------------------------------------------------------
(* sentence-highlighter.js                                                 *)

\* [.!?׃], the sentence-ending punctuation of sentenceRegex
IsSentenceEnd(c) == c \in {46, 33, 63, 1475}

NewlineAlwaysBoundary(c, isNetflix) == IsSentenceEnd(c) \/ c = 10

\* the characters the body [^...]+ of sentenceRegex does not accept: the
\* sentence-ending punctuation and, off netflix.com, the newline
IsBoundary(c, isNetflix) == IsSentenceEnd(c) \/ (~isNetflix /\ c = 10)

\* [^...]+ is greedy: the last index of the run of accepted characters
\* that starts at i
RECURSIVE BodyEnd(_, _, _)
BodyEnd(t, i, isNetflix) ==
    IF i + 1 <= Len(t) /\ ~IsBoundary(t[i + 1], isNetflix)
    THEN BodyEnd(t, i + 1, isNetflix) ELSE i

\* [.!?׃]* is greedy: the last index of the run of sentence-ending
\* punctuation that follows index i (i itself when there is none)
RECURSIVE PunctuationEnd(_, _)
PunctuationEnd(t, i) ==
    IF i + 1 <= Len(t) /\ IsSentenceEnd(t[i + 1])
    THEN PunctuationEnd(t, i + 1) ELSE i

\* the while ((match = sentenceRegex.exec(text)) !== null) loop: the
\* successive matches of /[^.!?׃\n]+[.!?׃]*/g (without \n in the
\* class on netflix.com) from index i on
RECURSIVE SentenceMatches(_, _, _, _)
SentenceMatches(t, i, isNetflix, acc) ==
    IF i > Len(t) THEN acc
    ELSE IF IsBoundary(t[i], isNetflix)
    THEN SentenceMatches(t, i + 1, isNetflix, acc)
    ELSE LET bodyEnd == BodyEnd(t, i, isNetflix)
             matchEnd == PunctuationEnd(t, bodyEnd)
         IN  SentenceMatches(t, matchEnd + 1, isNetflix,
                             Append(acc, SubSeq(t, i, matchEnd)))

\* the white space String.prototype.trim removes
IsWhiteSpace(c) == c \in {9, 10, 11, 12, 13, 32, 160, 8232, 8233, 65279}

\* str.trim()
RECURSIVE Trim(_)
Trim(t) ==
    IF t = << >> THEN t
    ELSE IF IsWhiteSpace(t[1]) THEN Trim(Tail(t))
    ELSE IF IsWhiteSpace(t[Len(t)]) THEN Trim(SubSeq(t, 1, Len(t) - 1))
    ELSE t

PotentiallyI1OnlyWithoutUnknown(sentence) ==
    sentence.potentiallyKnownCount = 1 /\ sentence.unknownCount = 0

\* isI1Sentence(sentence)
isI1Sentence(sentence) ==
    sentence.unknownCount = 1 /\ sentence.potentiallyKnownCount = 0

\* isPotentiallyI1Sentence(sentence)
isPotentiallyI1Sentence(sentence) ==
    /\ sentence.potentiallyKnownCount = 1
    /\ (sentence.unknownCount = 0 \/ sentence.unknownCount = 1)

\* the hebrewWords.forEach of highlightSentences: seen is uniqueWords
RECURSIVE SentenceCountsFrom(_, _, _, _, _, _)
SentenceCountsFrom(hebrewWords, i, seen, counts, mature, learning) ==
    IF i > Len(hebrewWords) THEN counts
    ELSE LET normalized == normalizeHebrew(hebrewWords[i])
             wordType == getWordKnownType(normalized, mature, learning)
         IN
         IF normalized \notin seen
         THEN SentenceCountsFrom(hebrewWords, i + 1, seen \cup {normalized},
                  IF wordType = "unknown"
                  THEN [counts EXCEPT !.unknownCount = @ + 1]
                  ELSE IF wordType = "potentially-known"
                  THEN [counts EXCEPT !.potentiallyKnownCount = @ + 1]
                  ELSE counts,
                  mature, learning)
         ELSE SentenceCountsFrom(hebrewWords, i + 1, seen, counts,
                                 mature, learning)

\* the sentences array built for one element: a sentence object for every
\* match that, trimmed, is not empty and holds at least MIN_SENTENCE_WORDS
\* Hebrew words of length 2 or more
RECURSIVE SentenceObjects(_, _, _, _, _)
SentenceObjects(matches, i, acc, mature, learning) ==
    IF i > Len(matches) THEN acc
    ELSE LET sentence == Trim(matches[i])
             hebrewWords == extractHebrewWords(sentence, 2, FALSE)
             counts == SentenceCountsFrom(hebrewWords, 1, {},
                           [unknownCount |-> 0, potentiallyKnownCount |-> 0],
                           mature, learning)
         IN
         IF \/ Len(sentence) = 0
            \/ Len(hebrewWords) = 0
            \/ Len(hebrewWords) < MIN_SENTENCE_WORDS
         THEN SentenceObjects(matches, i + 1, acc, mature, learning)
         ELSE SentenceObjects(matches, i + 1,
                  Append(acc, [text |-> sentence,
                               unknownCount |-> counts.unknownCount,
                               potentiallyKnownCount |->
                                   counts.potentiallyKnownCount]),
                  mature, learning)

\* sentences.filter(pred).length
CountWhere(sentences, Pred(_)) ==
    Cardinality({k \in 1..Len(sentences) : Pred(sentences[k])})

\* highlightSentences(matureWords, learningWords, ...): elements holds the
\* textContent of each element of elementsToProcess, the result is the
\* returned {i1Count, potentiallyI1Count}
RECURSIVE highlightSentencesFrom(_, _, _, _, _, _)
highlightSentencesFrom(elements, i, isNetflix, counts, mature, learning) ==
    IF i > Len(elements) THEN counts
    ELSE LET sentences ==
                 SentenceObjects(
                     SentenceMatches(elements[i], 1, isNetflix, << >>),
                     1, << >>, mature, learning)
         IN  highlightSentencesFrom(elements, i + 1, isNetflix,
                 [i1Count |-> counts.i1Count
                                + CountWhere(sentences, isI1Sentence),
                  potentiallyI1Count |-> counts.potentiallyI1Count
                                + CountWhere(sentences, isPotentiallyI1Sentence)],
                 mature, learning)

highlightSentences(elements, isNetflix, mature, learning) ==
    highlightSentencesFrom(elements, 1, isNetflix,
                           [i1Count |-> 0, potentiallyI1Count |-> 0],
                           mature, learning)

-----------------------------------------------------------------------------
(* Inputs of the word classifiers                                          *)

MaxWordLen == 3

\* vav, the three prefixes, alef (an ordinary letter), hiriq (a vowel point)
WordAlphabet == {VAV, LAMED, BET, SHIN, 1488, 1460}

RECURSIVE StringsUpTo(_, _)
StringsUpTo(alphabet, n) ==
    IF n = 0 THEN {<< >>}
    ELSE LET shorter == StringsUpTo(alphabet, n - 1) IN
         shorter \cup {Append(w, c) : w \in shorter, c \in alphabet}

\* a token is a match of HEBREW_WORD_REGEX: a non-empty run of Hebrew-block
\* characters
WordInputs == StringsUpTo(WordAlphabet, MaxWordLen) \ {<< >>}

\* vocabulary entries: alef, alef with a vowel point, bet-alef
WordVocabulary == {<<1488>>, <<1488, 1460>>, <<BET, 1488>>}

InitWord ==
    /\ word \in WordInputs
    /\ matureWords \in SUBSET WordVocabulary
    /\ learningWords \in SUBSET WordVocabulary
    /\ text = << >>
    /\ units = << >>
    /\ call = "none"
    /\ ret = "none"
    /\ args = << >>
    /\ getWords = "none"
    /\ lastIndex = 0
    /\ comprehensionStats = "null"
    /\ ModuleLevelState

\* word-highlighter.js, highlightTextNode: getWordType(match[0], ...)
Call_getWordType ==
    /\ call = "none"
    /\ call' = "getWordType"
    /\ ret' = getWordType(word, matureWords, learningWords)
    /\ UNCHANGED <<word, text, units, matureWords, learningWords, args,
                   getWords, lastIndex, comprehensionStats>>
    /\ UNCHANGED coordinatorVars

\* countWordTypes / highlightSentences: normalizeHebrew(word), then
\* getWordKnownType(normalized, ...)
Call_getWordKnownType ==
    /\ call = "none"
    /\ call' = "getWordKnownType"
    /\ ret' = getWordKnownType(normalizeHebrew(word), matureWords, learningWords)
    /\ UNCHANGED <<word, text, units, matureWords, learningWords, args,
                   getWords, lastIndex, comprehensionStats>>
    /\ UNCHANGED coordinatorVars

\* handleSubtitleUpdate: normalizeHebrew(word), then getWordType(normalized)
Call_coordinatorGetWordType ==
    /\ call = "none"
    /\ call' = "coordinatorGetWordType"
    /\ ret' = coordinatorGetWordType(normalizeHebrew(word), matureWords,
                                     learningWords)
    /\ UNCHANGED <<word, text, units, matureWords, learningWords, args,
                   getWords, lastIndex, comprehensionStats>>
    /\ UNCHANGED coordinatorVars

NextWord ==
    \/ Call_getWordType
    \/ Call_getWordKnownType
    \/ Call_coordinatorGetWordType

SpecWord == InitWord /\ [][NextWord]_vars

-----------------------------------------------------------------------------
(* What the statements below mean by their words                           *)

\* the diacritic-stripped form of a string: its characters outside
\* U+0591..U+05C7, in order
RECURSIVE Stripped(_)
Stripped(w) ==
    IF w = << >> THEN << >>
    ELSE IF Head(w) >= 1425 /\ Head(w) <= 1479 THEN Stripped(Tail(w))
    ELSE <<Head(w)>> \o Stripped(Tail(w))

HasDiacritics(w) == \E i \in 1..Len(w) : w[i] >= 1425 /\ w[i] <= 1479

Vocabulary == matureWords \cup learningWords

\* the token of the state, stripped, and the same without its first letter
Token == Stripped(word)
TokenRest == IF Len(Token) > 1 THEN SubSeq(Token, 2, Len(Token)) ELSE << >>

ExactMatch == Token \in Vocabulary
VavMatch == Len(Token) > 1 /\ Token[1] = 1493 /\ TokenRest \in Vocabulary
PrefixMatch ==
    Len(Token) > 1 /\ Token[1] \in {1500, 1489, 1513} /\ TokenRest \in Vocabulary

FourWayCall == call \in {"getWordType", "coordinatorGetWordType"}
WordCall == call \in {"getWordType", "coordinatorGetWordType", "getWordKnownType"}

-----------------------------------------------------------------------------
(* C4: classify checks exact membership first and mature before learning:  *)
(* a diacritic-stripped token present in matureSet is mature even when it  *)
(* is also in learningSet, a token only in learningSet is learning, and a  *)
(* token that matches exactly is never given a prefix rule's result.       *)
C4_ExactMatureBeforeLearning ==
    /\ FourWayCall =>
          /\ Token \in matureWords => ret = "mature"
          /\ (Token \notin matureWords /\ Token \in learningWords)
                => ret = "learning"
    /\ (call = "getWordKnownType" /\ ExactMatch) => ret = "known"

C4_Witness ==
    /\ call = "getWordType"
    /\ HasDiacritics(word)
    /\ Token \in matureWords
    /\ Token \in learningWords
    /\ ret = "mature"

(* C5: a token of length > 1 that begins with vav and has no exact match   *)
(* is mature when the token without its first letter is in matureSet, else *)
(* learning when it is in learningSet; a vav-stripped match is never       *)
(* potentially-known, also when the stripped form itself begins with a     *)
(* prefix letter.                                                          *)
C5_VavRule ==
    (~ExactMatch /\ Len(Token) > 1 /\ Token[1] = 1493) =>
        /\ FourWayCall =>
              /\ TokenRest \in matureWords => ret = "mature"
              /\ (TokenRest \notin matureWords /\ TokenRest \in learningWords)
                    => ret = "learning"
        /\ (call = "getWordKnownType" /\ VavMatch) => ret = "known"
        /\ (WordCall /\ VavMatch) => ret # "potentially-known"

C5_Witness ==
    /\ call = "getWordType"
    /\ ~ExactMatch
    /\ Len(Token) > 1
    /\ Token[1] = 1493
    /\ TokenRest \notin matureWords
    /\ TokenRest \in learningWords
    /\ ret = "learning"

(* C6: with no exact and no vav-stripped match, a token of length > 1 that *)
(* begins with lamed, bet or shin and whose rest is in matureSet or        *)
(* learningSet is potentially-known; mature, learning and known are only   *)
(* ever returned for an exact or vav-stripped match; a token no rule       *)
(* matches is unknown.                                                     *)
C6_PrefixRule ==
    WordCall =>
        /\ (~ExactMatch /\ ~VavMatch /\ PrefixMatch)
              => ret = "potentially-known"
        /\ ret \in {"mature", "learning", "known"} => (ExactMatch \/ VavMatch)
        /\ (~ExactMatch /\ ~VavMatch /\ ~PrefixMatch) => ret = "unknown"

C6_Witness ==
    /\ call = "getWordType"
    /\ Len(Token) > 1
    /\ Token[1] = 1513
    /\ TokenRest \in matureWords
    /\ ret = "potentially-known"

(* C8, as stated: a token is known whenever its diacritic-stripped form    *)
(* equals the diacritic-stripped form of a vocabulary entry, even if the   *)
(* stored entry still contains diacritics.                                 *)
C8_ToleratesUnnormalizedVocabulary ==
    (WordCall /\ \E e \in Vocabulary : Stripped(e) = Token)
        => ret \in {"mature", "learning", "known"}

\* a vocabulary without its entries that contain diacritics
WithoutDiacriticEntries(words) == {e \in words : ~HasDiacritics(e)}

(* C8, amended: only the token is normalized.  A token is known whenever   *)
(* its diacritic-stripped form equals a vocabulary entry as stored,        *)
(* whatever diacritics the token carries; a stored entry that contains     *)
(* diacritics matches no token, so the classification under a vocabulary   *)
(* is the classification under that vocabulary without such entries.       *)
C8_OnlyTokenNormalized ==
    /\ (WordCall /\ ExactMatch) => ret \in {"mature", "learning", "known"}
    /\ call = "getWordType" =>
          ret = getWordType(word, WithoutDiacriticEntries(matureWords),
                            WithoutDiacriticEntries(learningWords))
    /\ call = "getWordKnownType" =>
          ret = getWordKnownType(Token, WithoutDiacriticEntries(matureWords),
                                 WithoutDiacriticEntries(learningWords))
    /\ call = "coordinatorGetWordType" =>
          ret = coordinatorGetWordType(Token,
                                       WithoutDiacriticEntries(matureWords),
                                       WithoutDiacriticEntries(learningWords))

\* a stored entry with diacritics whose stripped form is the token, and the
\* token is unknown
C8_Witness ==
    /\ call = "getWordType"
    /\ \E e \in matureWords : HasDiacritics(e) /\ Stripped(e) = Token
    /\ ret = "unknown"

-----------------------------------------------------------------------------
(* Inputs of the sentence checks                                           *)

MaxWords == 4

\* the words a sentence is made of: alef-dalet, the same behind bet and
\* behind lamed, the same with a vowel point, two other words, and the
\* single letter bet
SentenceWordPool ==
    {<<1488, 1491>>, <<BET, 1488, 1491>>, <<LAMED, 1488, 1491>>,
     <<1488, 1460, 1491>>, <<1490, 1490>>, <<1492, 1492>>, <<BET>>}

\* vocabulary entries: alef-dalet
SentenceVocabulary == {<<1488, 1491>>}

\* the words of ws, separated by single spaces
RECURSIVE JoinWords(_)
JoinWords(ws) ==
    IF Len(ws) = 0 THEN << >>
    ELSE IF Len(ws) = 1 THEN ws[1]
    ELSE ws[1] \o <<32>> \o JoinWords(Tail(ws))

SentenceInputs ==
    {JoinWords(ws) : ws \in UNION {[1..n -> SentenceWordPool] : n \in 0..MaxWords}}

Init ==
    /\ text \in SentenceInputs
    /\ matureWords \in SUBSET SentenceVocabulary
    /\ learningWords \in SUBSET SentenceVocabulary
    /\ word = << >>
    /\ units = <<text>>
    /\ call = "none"
    /\ ret = "none"
    /\ args = << >>
    /\ getWords = "none"
    /\ lastIndex = 0
    /\ comprehensionStats = "null"
    /\ ModuleLevelState

\* handleSubtitleUpdate / populateSubtitleBrowser:
\* checkIfI1Sentence(subtitleText, matureWords, learningWords)
Call_checkIfI1Sentence ==
    /\ call = "none"
    /\ call' = "checkIfI1Sentence"
    /\ ret' = checkIfI1Sentence(text, matureWords, learningWords)
    /\ lastIndex' = IF Len(text) = 0 THEN lastIndex ELSE 0
    /\ UNCHANGED <<word, text, units, matureWords, learningWords, args,
                   getWords, comprehensionStats>>
    /\ UNCHANGED coordinatorVars

\* checkIfPotentiallyI1Sentence(subtitleText, matureWords, learningWords)
Call_checkIfPotentiallyI1Sentence ==
    /\ call = "none"
    /\ call' = "checkIfPotentiallyI1Sentence"
    /\ ret' = checkIfPotentiallyI1Sentence(text, matureWords, learningWords)
    /\ lastIndex' = IF Len(text) = 0 THEN lastIndex ELSE 0
    /\ UNCHANGED <<word, text, units, matureWords, learningWords, args,
                   getWords, comprehensionStats>>
    /\ UNCHANGED coordinatorVars

\* highlightSentences over a page whose elements to process hold the
\* units, on netflix.com or elsewhere
Call_highlightSentences ==
    /\ call = "none"
    /\ call' = "highlightSentences"
    /\ \E isNetflix \in BOOLEAN :
          /\ args' = [isNetflix |-> isNetflix]
          /\ ret' = highlightSentences(units, isNetflix, matureWords,
                                       learningWords)
    /\ lastIndex' = IF Len(units) = 0 THEN lastIndex ELSE 0
    /\ UNCHANGED <<word, text, units, matureWords, learningWords, getWords,
                   comprehensionStats>>
    /\ UNCHANGED coordinatorVars

\* calculateComprehensionStats over a track whose subtitles hold the units;
\* the 'getWords' message resolves with the vocabulary snapshot or rejects,
\* and a rejection is caught and answered with the zeroed object
Call_calculateComprehensionStats ==
    /\ call = "none"
    /\ call' = "calculateComprehensionStats"
    /\ \E outcome \in {"resolved", "rejected"} :
          /\ getWords' = outcome
          /\ ret' = IF outcome = "rejected" THEN ZeroStats
                    ELSE calculateComprehensionStats(units, matureWords,
                                                     learningWords)
          /\ lastIndex' = IF outcome = "rejected" \/ Len(units) = 0
                          THEN lastIndex ELSE 0
    /\ UNCHANGED <<word, text, units, matureWords, learningWords, args,
                   comprehensionStats>>
    /\ UNCHANGED coordinatorVars

Next ==
    \/ Call_checkIfI1Sentence
    \/ Call_checkIfPotentiallyI1Sentence
    \/ Call_highlightSentences
    \/ Call_calculateComprehensionStats

Spec == Init /\ [][Next]_vars

-----------------------------------------------------------------------------
(* The counts of a sentence, as the statements below take them             *)

\* the Hebrew tokens of t whose diacritic-stripped length is > 1
TokensOf(t) == SelectSeq(HebrewMatches(t), LAMBDA w : Len(Stripped(w)) > 1)

\* the unique normalized tokens of length > 1
UniqueTokensOf(t) == {Stripped(TokensOf(t)[k]) : k \in 1..Len(TokensOf(t))}

\* strictly unknown: a potentially-known word is not counted
UnknownCountOf(t) ==
    Cardinality({w \in UniqueTokensOf(t) :
        getWordKnownType(w, matureWords, learningWords) = "unknown"})

PotentiallyKnownCountOf(t) ==
    Cardinality({w \in UniqueTokensOf(t) :
        getWordKnownType(w, matureWords, learningWords) = "potentially-known"})

\* a sentence that sentence-level classification applies to
ClassifiableText(t) == Len(TokensOf(t)) >= 3

IsIPlus1Text(t) ==
    ClassifiableText(t) /\ UnknownCountOf(t) = 1 /\ PotentiallyKnownCountOf(t) = 0

IsPotentiallyIPlus1Text(t) ==
    /\ ClassifiableText(t)
    /\ PotentiallyKnownCountOf(t) = 1
    /\ UnknownCountOf(t) \in {0, 1}

\* the same, of the sentence of the state
TokenCount == Len(TokensOf(text))
UnknownCount == UnknownCountOf(text)
PotentiallyKnownCount == PotentiallyKnownCountOf(text)
Classifiable == ClassifiableText(text)
IsIPlus1 == IsIPlus1Text(text)
IsPotentiallyIPlus1 == IsPotentiallyIPlus1Text(text)

Flag(b) == IF b THEN 1 ELSE 0

\* calculateComprehensionStats has run with the vocabulary delivered
StatsComputed == call = "calculateComprehensionStats" /\ getWords = "resolved"

-----------------------------------------------------------------------------
(* C1: every call site classifies a sentence as i-plus-1 if and only if    *)
(* unknownCount = 1 and potentiallyKnownCount = 0, a potentially-known     *)
(* word not being counted as unknown: isI1Sentence in the page             *)
(* highlighter, the i1SentenceCount tally of calculateComprehensionStats,  *)
(* and checkIfI1Sentence.  (Stated for sentences of at least 3 tokens,     *)
(* the ones sentence-level classification applies to.)                     *)
C1_I1IffOneUnknownNoPotential ==
    Classifiable =>
        /\ call = "checkIfI1Sentence" => ret = IsIPlus1
        /\ call = "highlightSentences" => ret.i1Count = Flag(IsIPlus1)
        /\ StatsComputed => ret.i1Sentences = Flag(IsIPlus1)

(* C2: i-plus-1 and potentially-i-plus-1 are mutually exclusive:           *)
(* checkIfI1Sentence and checkIfPotentiallyI1Sentence never both return    *)
(* true for the same text and vocabulary, and isI1Sentence and             *)
(* isPotentiallyI1Sentence never both hold for the same sentence object.   *)
C2_MutuallyExclusive ==
    /\ (call = "checkIfI1Sentence" /\ ret)
          => ~checkIfPotentiallyI1Sentence(text, matureWords, learningWords)
    /\ (call = "checkIfPotentiallyI1Sentence" /\ ret)
          => ~checkIfI1Sentence(text, matureWords, learningWords)
    /\ call = "highlightSentences"
          => ret.i1Count + ret.potentiallyI1Count <= 1

C7_FewerThanThreeNeverClassified ==
    TokenCount < 3 =>
        /\ call \in {"checkIfI1Sentence", "checkIfPotentiallyI1Sentence"}
              => ret = FALSE
        /\ call = "highlightSentences"
              => ret.i1Count = 0 /\ ret.potentiallyI1Count = 0
        /\ call = "calculateComprehensionStats"
              => ret.i1Sentences = 0 /\ ret.potentiallyI1Sentences = 0

\* two tokens, exactly one of them unknown, and the check says no
C7_Witness ==
    /\ call = "checkIfI1Sentence"
    /\ TokenCount = 2
    /\ UnknownCount = 1
    /\ PotentiallyKnownCount = 0
    /\ ret = FALSE

-----------------------------------------------------------------------------
(* Inputs of the aggregate passes                                          *)

MaxUnits == 2

\* what a unit is made of: alef-dalet, gimel-gimel, gimel-gimel in square
\* brackets, bet-alef-dalet in round brackets, he-he in full-width
\* brackets, and the single letter bet
ChunkPool ==
    {<<1488, 1491>>, <<1490, 1490>>, <<91, 1490, 1490, 93>>,
     <<40, BET, 1488, 1491, 41>>, <<65288, 1492, 1492, 65289>>, <<BET>>}

\* a unit is one chunk, or alef-dalet twice and then one chunk
UnitPool ==
    {c : c \in ChunkPool}
        \cup {JoinWords(<<<<1488, 1491>>, <<1488, 1491>>, c>>) : c \in ChunkPool}

UnitInputs == UNION {[1..n -> UnitPool] : n \in 0..MaxUnits}

InitStats ==
    /\ units \in UnitInputs
    /\ matureWords \in SUBSET SentenceVocabulary
    /\ learningWords \in SUBSET SentenceVocabulary
    /\ word = << >>
    /\ text = << >>
    /\ call = "none"
    /\ ret = "none"
    /\ args = << >>
    /\ getWords = "none"
    /\ lastIndex = 0
    /\ comprehensionStats = "null"
    /\ ModuleLevelState

\* highlightWords over a page whose text nodes hold the units
Call_highlightWords ==
    /\ call = "none"
    /\ call' = "highlightWords"
    /\ ret' = highlightWords(units, matureWords, learningWords)
    /\ lastIndex' = IF Len(units) = 0 THEN lastIndex ELSE 0
    /\ UNCHANGED <<word, text, units, matureWords, learningWords, args,
                   getWords, comprehensionStats>>
    /\ UNCHANGED coordinatorVars

\* SubtitleReaderBase.calculateComprehensionStats(), this.subtitles holding
\* the units: the zeroed object at once when no subtitle is loaded, else
\* the answer of window.calculateComprehensionStats, kept in
\* this.comprehensionStats
Call_SubtitleReaderBase_calculateComprehensionStats ==
    /\ call = "none"
    /\ call' = "SubtitleReaderBase.calculateComprehensionStats"
    /\ IF Len(units) = 0
       THEN /\ ret' = NoSubtitlesStats
            /\ UNCHANGED <<getWords, lastIndex, comprehensionStats>>
       ELSE \E outcome \in {"resolved", "rejected"} :
               /\ getWords' = outcome
               /\ ret' = IF outcome = "rejected" THEN ZeroStats
                         ELSE calculateComprehensionStats(units, matureWords,
                                                          learningWords)
               /\ comprehensionStats' = ret'
               /\ lastIndex' = IF outcome = "rejected" THEN lastIndex ELSE 0
    /\ UNCHANGED <<word, text, units, matureWords, learningWords, args>>
    /\ UNCHANGED coordinatorVars

NextStats ==
    \/ Call_calculateComprehensionStats
    \/ Call_highlightSentences
    \/ Call_highlightWords
    \/ Call_SubtitleReaderBase_calculateComprehensionStats

SpecStats == InitStats /\ [][NextStats]_vars

-----------------------------------------------------------------------------
(* The words of the units, as the statements below take them               *)

UnitIndexes == 1..Len(units)

\* the unique tokens of diacritic-stripped length >= 2 of all units,
\* bracket content included
DocumentWords == UNION {UniqueTokensOf(units[u]) : u \in UnitIndexes}

\* a unit's text outside [...], full-width (...) and ASCII (...)
OutsideBrackets(t) ==
    RemoveBracketed(RemoveBracketed(RemoveBracketed(t, 91, 93), 65288, 65289),
                    40, 41)

\* the same, bracket content left out
DocumentWordsOutsideBrackets ==
    UNION {UniqueTokensOf(OutsideBrackets(units[u])) : u \in UnitIndexes}

\* every Hebrew run of the units, diacritic-stripped, whatever its length
DocumentRuns ==
    UNION {{Stripped(HebrewMatches(units[u])[k]) :
               k \in 1..Len(HebrewMatches(units[u]))} : u \in UnitIndexes}

CountUnits(Pred(_)) == Cardinality({u \in UnitIndexes : Pred(units[u])})

IsIPlus1OutsideBrackets(t) == IsIPlus1Text(OutsideBrackets(t))
IsPotentiallyIPlus1OutsideBrackets(t) ==
    IsPotentiallyIPlus1Text(OutsideBrackets(t))

-----------------------------------------------------------------------------
(* C9, as stated: in the aggregate, bracket content is stripped at         *)
(* token-extraction time: Hebrew words that occur only inside [...],       *)
(* full-width (...) or ASCII (...) do not enter the document-wide          *)
(* unique-word set and do not count toward a unit's token count or its     *)
(* unknown / potentially-known counts.                                     *)
C9_BracketContentStripped ==
    /\ StatsComputed =>
          /\ ret.total = Cardinality(DocumentWordsOutsideBrackets)
          /\ ret.i1Sentences = CountUnits(IsIPlus1OutsideBrackets)
          /\ ret.potentiallyI1Sentences
                = CountUnits(IsPotentiallyIPlus1OutsideBrackets)
    /\ call = "highlightSentences" =>
          /\ ret.i1Count = CountUnits(IsIPlus1OutsideBrackets)
          /\ ret.potentiallyI1Count
                = CountUnits(IsPotentiallyIPlus1OutsideBrackets)

(* C9, amended: in the aggregate, bracket content is not stripped (both    *)
(* aggregate passes extract with ignoreBrackets = false): Hebrew words     *)
(* inside [...], full-width (...) or ASCII (...) enter the document-wide   *)
(* unique-word set and count toward the unit's token count and its unknown *)
(* / potentially-known counts like any other word.                         *)
C9_BracketContentCounted ==
    /\ StatsComputed =>
          /\ ret.total = Cardinality(DocumentWords)
          /\ ret.i1Sentences = CountUnits(IsIPlus1Text)
          /\ ret.potentiallyI1Sentences = CountUnits(IsPotentiallyIPlus1Text)
    /\ call = "highlightSentences" =>
          /\ ret.i1Count = CountUnits(IsIPlus1Text)
          /\ ret.potentiallyI1Count = CountUnits(IsPotentiallyIPlus1Text)

\* a word that only occurs inside brackets is in the total, and the unit it
\* makes three tokens long is counted as i+1
C9_Witness ==
    /\ StatsComputed
    /\ DocumentWords # DocumentWordsOutsideBrackets
    /\ ret.total = Cardinality(DocumentWords)
    /\ ret.total > Cardinality(DocumentWordsOutsideBrackets)
    /\ ret.i1Sentences > CountUnits(IsIPlus1OutsideBrackets)

(* C10: aggregate statistics are computed over Hebrew tokens of minimum    *)
(* length 2: a single-letter Hebrew token never counts toward the total    *)
(* unique-word count, neither in calculateComprehensionStats nor in the    *)
(* page statistics returned by highlightWords.                             *)
C10_SingleLettersNotCounted ==
    (StatsComputed \/ call = "highlightWords") =>
        /\ ret.total = Cardinality(DocumentWords)
        /\ ret.total = Cardinality({w \in DocumentRuns : Len(w) >= 2})

-----------------------------------------------------------------------------
(* Inputs of the percentage                                                *)

MaxTotalWords == 40

InitPercentage ==
    /\ args \in {[knownCount |-> k, totalWords |-> t] :
                    k \in 0..MaxTotalWords, t \in 0..MaxTotalWords}
    /\ args.knownCount <= args.totalWords
    /\ word = << >>
    /\ text = << >>
    /\ units = << >>
    /\ matureWords = {}
    /\ learningWords = {}
    /\ call = "none"
    /\ ret = "none"
    /\ getWords = "none"
    /\ lastIndex = 0
    /\ comprehensionStats = "null"
    /\ ModuleLevelState

\* the percentage step of calculateComprehensionStats, for a track with
\* args.totalWords unique words of which args.knownCount are known
Call_percentage ==
    /\ call = "none"
    /\ call' = "percentage"
    /\ ret' = percentage(args.knownCount, args.totalWords)
    /\ UNCHANGED <<word, text, units, matureWords, learningWords, args,
                   getWords, lastIndex, comprehensionStats>>
    /\ UNCHANGED coordinatorVars

NextPercentage == Call_percentage

SpecPercentage == InitPercentage /\ [][NextPercentage]_vars

\* the unique words of the units that are in the vocabulary as they are or
\* once a leading vav is taken off
KnownDocumentWords ==
    {w \in DocumentWords :
        \/ w \in Vocabulary
        \/ Len(w) > 1 /\ w[1] = 1493 /\ SubSeq(w, 2, Len(w)) \in Vocabulary}

\* round(k / t * 100) in exact arithmetic, a half going up; 0 when t = 0
ExactPercentage(k, t) ==
    IF t = 0 THEN 0
    ELSE CHOOSE p \in 0..100 :
             2 * t * p <= 200 * k + t /\ 200 * k + t < 2 * t * (p + 1)

(* C11: the aggregate percentage equals round(knownCount /                 *)
(* totalUniqueWords * 100) when totalUniqueWords > 0 and 0 when it is 0,   *)
(* knownCount being the number of unique words known by exact or           *)
(* vav-stripped membership in mature or learning, potentially-known words  *)
(* not included.                                                           *)
C11_PercentageIsRounded ==
    /\ StatsComputed =>
          /\ ret.total = Cardinality(DocumentWords)
          /\ ret.known = Cardinality(KnownDocumentWords)
          /\ ret.percentage = ExactPercentage(ret.known, ret.total)
    /\ call = "percentage" =>
          ret = ExactPercentage(args.knownCount, args.totalWords)

-----------------------------------------------------------------------------
\* the stats object with every field 0
AllZeroStats ==
    [f \in {"total", "known", "potentiallyKnown", "percentage", "i1Sentences",
            "potentiallyI1Sentences"} |-> 0]

(* C12: if the vocabulary fetch fails (the getWords message rejects),      *)
(* calculateComprehensionStats resolves to the zeroed stats object and     *)
(* does not propagate the error, for any list of subtitles.                *)
C12_FetchFailureGivesZeroStats ==
    (call = "calculateComprehensionStats" /\ getWords = "rejected")
        => ret = AllZeroStats

\* the fetch failed on a track that has words to count
C12_Witness ==
    /\ call = "calculateComprehensionStats"
    /\ getWords = "rejected"
    /\ DocumentWords # {}
    /\ ret = AllZeroStats

(* C13: aggregating an empty collection of text units returns the zeroed   *)
(* stats object, through window.calculateComprehensionStats([]) and        *)
(* through SubtitleReaderBase.calculateComprehensionStats with no          *)
(* subtitles loaded, for any vocabulary.                                   *)
C13_EmptyAggregateIsZero ==
    (/\ Len(units) = 0
     /\ call \in {"calculateComprehensionStats",
                  "SubtitleReaderBase.calculateComprehensionStats"})
        => ret = AllZeroStats

\* no units, a vocabulary that is not empty, the vocabulary delivered
C13_Witness ==
    /\ Len(units) = 0
    /\ StatsComputed
    /\ Vocabulary # {}
    /\ ret = AllZeroStats

-----------------------------------------------------------------------------
(* The classifiers on vocabulary arguments of any kind                     *)
(*                                                                         *)
(* A JavaScript value handed over as a vocabulary is [kind |-> "array",    *)
(* items |-> the set of its elements], or of kind "undefined", "null" or   *)
(* "object" (a plain object, which has no includes method).  A classifier  *)
(* that throws returns "TypeError" here.                                   *)

IsArray(value) == value.kind = "array"

\* word-highlighter.js getWordType: matureWords.includes(normalized) is
\* evaluated first and throws on a value without includes();
\* learningWords.includes(normalized) is evaluated only when the first
\* test fails
getWordTypeGiven(w, matureValue, learningValue) ==
    IF ~IsArray(matureValue) THEN "TypeError"
    ELSE IF Includes(matureValue.items, normalizeHebrew(w)) THEN "mature"
    ELSE IF ~IsArray(learningValue) THEN "TypeError"
    ELSE getWordType(w, matureValue.items, learningValue.items)

\* hebrew-text.js getWordKnownType: matureWords.includes(normalizedWord) ||
\* learningWords.includes(normalizedWord), the right operand evaluated
\* only when the left one is false
getWordKnownTypeGiven(normalizedWord, matureValue, learningValue) ==
    IF ~IsArray(matureValue) THEN "TypeError"
    ELSE IF Includes(matureValue.items, normalizedWord) THEN "known"
    ELSE IF ~IsArray(learningValue) THEN "TypeError"
    ELSE getWordKnownType(normalizedWord, matureValue.items,
                          learningValue.items)

\* value || []
OrEmptyArray(value) ==
    IF value.kind \in {"undefined", "null"}
    THEN [kind |-> "array", items |-> {}] ELSE value

\* the elements of an array, none for a value that was never searched
ItemsSearched(value) == IF IsArray(value) THEN value.items ELSE {}

\* calculateComprehensionStats(subtitles) when the getWords reply is
\* wordsData: wordsData.matureWords || [] and wordsData.learningWords || [],
\* then the tallies; a TypeError thrown by a classification is caught and
\* answered with the zeroed object
calculateComprehensionStatsGiven(subs, wordsData) ==
    LET mature == OrEmptyArray(wordsData.matureWords)
        learning == OrEmptyArray(wordsData.learningWords)
    IN  IF \E w \in UniqueWordsFrom(subs, 1, {}) :
               getWordKnownTypeGiven(w, mature, learning) = "TypeError"
        THEN ZeroStats
        ELSE calculateComprehensionStats(subs, ItemsSearched(mature),
                                         ItemsSearched(learning))

\* alef-dalet, vav-alef-dalet, bet-alef-dalet, gimel-gimel
GuardWords ==
    {<<1488, 1491>>, <<VAV, 1488, 1491>>, <<BET, 1488, 1491>>, <<1490, 1490>>}

VocabularyValues ==
    {[kind |-> "undefined"], [kind |-> "null"], [kind |-> "object"]}
        \cup {[kind |-> "array", items |-> items] :
                 items \in SUBSET SentenceVocabulary}

InitGuard ==
    /\ word \in GuardWords
    /\ args \in {[matureWords |-> m, learningWords |-> l] :
                    m \in VocabularyValues, l \in VocabularyValues}
    /\ units = <<word>>
    /\ text = << >>
    /\ matureWords = {}
    /\ learningWords = {}
    /\ call = "none"
    /\ ret = "none"
    /\ getWords = "none"
    /\ lastIndex = 0
    /\ comprehensionStats = "null"
    /\ ModuleLevelState

\* getWordType(word, matureWords, learningWords) of word-highlighter.js
\* called with the values args holds
Call_getWordTypeGiven ==
    /\ call = "none"
    /\ call' = "getWordTypeGiven"
    /\ ret' = getWordTypeGiven(word, args.matureWords, args.learningWords)
    /\ UNCHANGED <<word, text, units, matureWords, learningWords, args,
                   getWords, lastIndex, comprehensionStats>>
    /\ UNCHANGED coordinatorVars

\* getWordKnownType(normalizeHebrew(word), matureWords, learningWords)
\* called with the values args holds
Call_getWordKnownTypeGiven ==
    /\ call = "none"
    /\ call' = "getWordKnownTypeGiven"
    /\ ret' = getWordKnownTypeGiven(normalizeHebrew(word), args.matureWords,
                                    args.learningWords)
    /\ UNCHANGED <<word, text, units, matureWords, learningWords, args,
                   getWords, lastIndex, comprehensionStats>>
    /\ UNCHANGED coordinatorVars

\* calculateComprehensionStats over the units, the getWords message
\* resolving with the object args holds
Call_calculateComprehensionStatsGiven ==
    /\ call = "none"
    /\ call' = "calculateComprehensionStatsGiven"
    /\ getWords' = "resolved"
    /\ ret' = calculateComprehensionStatsGiven(units, args)
    /\ lastIndex' = 0
    /\ UNCHANGED <<word, text, units, matureWords, learningWords, args,
                   comprehensionStats>>
    /\ UNCHANGED coordinatorVars

NextGuard ==
    \/ Call_getWordTypeGiven
    \/ Call_getWordKnownTypeGiven
    \/ Call_calculateComprehensionStatsGiven

SpecGuard == InitGuard /\ [][NextGuard]_vars

\* the set a vocabulary argument stands for when anything that is not an
\* array is taken as empty
AsSet(value) == IF value.kind = "array" THEN value.items ELSE {}

(* C14: vocabulary that is missing or not an array is treated as an empty  *)
(* set: classifying a word when the mature or the learning argument is     *)
(* undefined, null or another non-array value returns what an empty set    *)
(* would give and does not throw, in getWordType, getWordKnownType and     *)
(* the aggregator.                                                         *)
C14_NonArrayVocabularyIsEmpty ==
    /\ call = "getWordTypeGiven" =>
          ret = getWordType(word, AsSet(args.matureWords),
                            AsSet(args.learningWords))
    /\ call = "getWordKnownTypeGiven" =>
          ret = getWordKnownType(normalizeHebrew(word),
                                 AsSet(args.matureWords),
                                 AsSet(args.learningWords))
    /\ call = "calculateComprehensionStatsGiven" =>
          ret = calculateComprehensionStats(units, AsSet(args.matureWords),
                                            AsSet(args.learningWords))

-----------------------------------------------------------------------------
(* The shared global regular expression HEBREW_WORD_REGEX and its cursor   *)

\* RegExp.prototype.exec / test of the global /[\u0590-\u05FF]+/g on t with
\* lastIndex = cursor: the search starts at the cursor; a match leaves
\* lastIndex at its end, a failure (or a cursor beyond the text) leaves 0
RegExpExec(t, cursor) ==
    LET positions == {i \in (cursor + 1)..Len(t) : IsHebrewChar(t[i])} IN
    IF cursor > Len(t) \/ positions = {}
    THEN [found |-> FALSE, lastIndex |-> 0]
    ELSE LET start == CHOOSE i \in positions : \A j \in positions : i <= j
             ends == {j \in start..Len(t) :
                         \A k \in start..j : IsHebrewChar(t[k])}
         IN  [found |-> TRUE,
              lastIndex |-> CHOOSE j \in ends : \A k \in ends : k <= j]

KeepLastIndex(cursor) == cursor

\* HEBREW_WORD_REGEX.lastIndex = 0
ResetLastIndex(cursor) == 0

\* containsHebrew(text), the cursor being what an earlier call left
containsHebrew(t, cursor) ==
    IF Len(t) = 0 THEN [result |-> FALSE, lastIndex |-> cursor]
    ELSE LET scan == RegExpExec(t, ResetLastIndex(cursor)) IN
         [result |-> scan.found, lastIndex |-> scan.lastIndex]

\* isHebrewWord(word)
isHebrewWord(w, cursor) ==
    IF Len(w) = 0 THEN [result |-> FALSE, lastIndex |-> cursor]
    ELSE LET scan == RegExpExec(w, ResetLastIndex(cursor)) IN
         [result |-> scan.found, lastIndex |-> scan.lastIndex]

\* the MutationObserver's test of an added node's textContent
observerTest(t, cursor) ==
    LET scan == RegExpExec(t, ResetLastIndex(cursor)) IN
    [result |-> scan.found, lastIndex |-> scan.lastIndex]

\* the exec loop of highlightTextNode: the cursor is reset, then exec is
\* called until it fails, which leaves the cursor at 0
RECURSIVE ExecLoop(_, _)
ExecLoop(t, cursor) ==
    LET scan == RegExpExec(t, cursor) IN
    IF scan.found THEN ExecLoop(t, scan.lastIndex) ELSE scan.lastIndex

\* text.match(HEBREW_WORD_REGEX): lastIndex is set to 0, then exec runs
\* until it fails
CursorAfterMatch(t) == ExecLoop(t, 0)

\* the empty text, alef-dalet, "x", "x" alef, alef-dalet gimel-gimel,
\* alef "x", a lone hiriq, three words
RegexTexts ==
    {<< >>, <<1488, 1491>>, <<120>>, <<120, 1488>>,
     <<1488, 1491, 32, 1490, 1490>>, <<1488, 120>>, <<1460>>,
     <<1488, 1491, 32, 1488, 1491, 32, 1490, 1490>>}

InitRegex ==
    /\ text = << >>
    /\ lastIndex = 0
    /\ args = [cursor |-> 0]
    /\ matureWords = {<<1488, 1491>>}
    /\ learningWords = {}
    /\ word = << >>
    /\ units = << >>
    /\ call = "none"
    /\ ret = "none"
    /\ getWords = "none"
    /\ comprehensionStats = "null"
    /\ ModuleLevelState

\* Each call below takes its text from RegexTexts and follows whatever call
\* came before; args.cursor keeps the lastIndex the call found.

Regex_containsHebrew ==
    \E t \in RegexTexts :
        /\ text' = t
        /\ call' = "containsHebrew"
        /\ args' = [cursor |-> lastIndex]
        /\ ret' = containsHebrew(t, lastIndex).result
        /\ lastIndex' = containsHebrew(t, lastIndex).lastIndex
        /\ UNCHANGED <<word, units, matureWords, learningWords, getWords,
                       comprehensionStats>>
    /\ UNCHANGED coordinatorVars

Regex_isHebrewWord ==
    \E t \in RegexTexts :
        /\ text' = t
        /\ call' = "isHebrewWord"
        /\ args' = [cursor |-> lastIndex]
        /\ ret' = isHebrewWord(t, lastIndex).result
        /\ lastIndex' = isHebrewWord(t, lastIndex).lastIndex
        /\ UNCHANGED <<word, units, matureWords, learningWords, getWords,
                       comprehensionStats>>
    /\ UNCHANGED coordinatorVars

\* extractHebrewWords(text, 2, false)
Regex_extractHebrewWords ==
    \E t \in RegexTexts :
        /\ text' = t
        /\ call' = "extractHebrewWords"
        /\ args' = [cursor |-> lastIndex]
        /\ ret' = extractHebrewWords(t, 2, FALSE)
        /\ lastIndex' = IF Len(t) = 0 THEN lastIndex ELSE CursorAfterMatch(t)
        /\ UNCHANGED <<word, units, matureWords, learningWords, getWords,
                       comprehensionStats>>
    /\ UNCHANGED coordinatorVars

\* highlightTextNode on a text node whose textContent is t
Regex_highlightTextNode ==
    \E t \in RegexTexts :
        /\ text' = t
        /\ call' = "highlightTextNode"
        /\ args' = [cursor |-> lastIndex]
        /\ ret' = "undefined"
        /\ lastIndex' = ExecLoop(t, ResetLastIndex(lastIndex))
        /\ UNCHANGED <<word, units, matureWords, learningWords, getWords,
                       comprehensionStats>>
    /\ UNCHANGED coordinatorVars

Regex_checkIfI1Sentence ==
    \E t \in RegexTexts :
        /\ text' = t
        /\ call' = "checkIfI1Sentence"
        /\ args' = [cursor |-> lastIndex]
        /\ ret' = checkIfI1Sentence(t, matureWords, learningWords)
        /\ lastIndex' = IF Len(t) = 0 THEN lastIndex ELSE CursorAfterMatch(t)
        /\ UNCHANGED <<word, units, matureWords, learningWords, getWords,
                       comprehensionStats>>
    /\ UNCHANGED coordinatorVars

\* the MutationObserver callback reaching its test with an added node whose
\* textContent is t
Regex_observerTest ==
    \E t \in RegexTexts :
        /\ text' = t
        /\ call' = "observerTest"
        /\ args' = [cursor |-> lastIndex]
        /\ ret' = observerTest(t, lastIndex).result
        /\ lastIndex' = observerTest(t, lastIndex).lastIndex
        /\ UNCHANGED <<word, units, matureWords, learningWords, getWords,
                       comprehensionStats>>
    /\ UNCHANGED coordinatorVars

NextRegex ==
    \/ Regex_containsHebrew
    \/ Regex_isHebrewWord
    \/ Regex_extractHebrewWords
    \/ Regex_highlightTextNode
    \/ Regex_checkIfI1Sentence
    \/ Regex_observerTest

SpecRegex == InitRegex /\ [][NextRegex]_vars

\* text has a character in U+0590..U+05FF
HasHebrewCharacter == \E i \in 1..Len(text) : text[i] \in 1424..1535

(* C15: for any sequence of calls that share HEBREW_WORD_REGEX and its     *)
(* lastIndex cursor, every containsHebrew(text) / isHebrewWord(text) call  *)
(* returns true if and only if text has at least one character in          *)
(* U+0590..U+05FF, whatever cursor an earlier call left.                   *)
C15_ScanIgnoresLeftCursor ==
    call \in {"containsHebrew", "isHebrewWord"} => ret = HasHebrewCharacter

\* containsHebrew found a cursor at or past the only Hebrew run of its text
\* and still answered true
C15_Witness ==
    /\ call = "containsHebrew"
    /\ args.cursor >= 2
    /\ text = <<1488, 1491>>
    /\ ret = TRUE

-----------------------------------------------------------------------------
(* Inputs of normalizeHebrew                                               *)

MaxNormalizeLen == 3

\* U+0590 and U+05C8, the neighbours of the diacritic range, its two ends
\* U+0591 and U+05C7, alef, and the Latin letter a
NormalizeAlphabet == {1424, 1425, 1479, 1480, 1488, 97}

InitNormalize ==
    /\ word \in StringsUpTo(NormalizeAlphabet, MaxNormalizeLen)
    /\ text = << >>
    /\ units = << >>
    /\ matureWords = {}
    /\ learningWords = {}
    /\ call = "none"
    /\ ret = "none"
    /\ args = << >>
    /\ getWords = "none"
    /\ lastIndex = 0
    /\ comprehensionStats = "null"
    /\ ModuleLevelState

Call_normalizeHebrew ==
    /\ call = "none"
    /\ call' = "normalizeHebrew"
    /\ ret' = normalizeHebrew(word)
    /\ UNCHANGED <<word, text, units, matureWords, learningWords, args,
                   getWords, lastIndex, comprehensionStats>>
    /\ UNCHANGED coordinatorVars

NextNormalize == Call_normalizeHebrew

SpecNormalize == InitNormalize /\ [][NextNormalize]_vars

(* C16: normalizeHebrew is idempotent, normalizeHebrew(normalizeHebrew(x)) *)
(* = normalizeHebrew(x) for every x; its output has no character in        *)
(* U+0591..U+05C7 and keeps every other character of x, in order.          *)
C16_NormalizeIdempotent ==
    call = "normalizeHebrew" =>
        /\ normalizeHebrew(ret) = ret
        /\ \A i \in 1..Len(ret) : ret[i] \notin 1425..1479
        /\ ret = Stripped(word)

\* two diacritics around a letter: the letter alone is left
C16_Witness ==
    /\ call = "normalizeHebrew"
    /\ word = <<1425, 1488, 1479>>
    /\ ret = <<1488>>

-----------------------------------------------------------------------------
(* Inputs of extractHebrewWords                                            *)

MaxTextLen == 4

\* alef, hiriq, space, and the square and the ASCII round brackets
TextAlphabet == {1488, 1460, 32, 91, 93, 40, 41}

\* texts with full-width brackets: a span, a span holding the other
\* brackets, an opening bracket alone, spans of two kinds that overlap
FullWidthTexts ==
    {<<65288, 1488, 65289, 1488>>, <<65288, 1488>>, <<1488, 65289, 1488>>,
     <<65288, 91, 1488, 65289, 1488, 93>>, <<91, 65288, 1488, 93, 1488, 65289>>,
     <<40, 65288, 1488, 41, 1488, 65289>>, <<65288, 40, 1488, 65289, 1488, 41>>,
     <<1488, 1460, 65288, 1460, 65289, 1488, 1488>>}

TextInputs == StringsUpTo(TextAlphabet, MaxTextLen) \cup FullWidthTexts

MinLengths == {0, 1, 2}

InitText ==
    /\ text \in TextInputs
    /\ word = << >>
    /\ units = << >>
    /\ matureWords = {}
    /\ learningWords = {}
    /\ call = "none"
    /\ ret = "none"
    /\ args = << >>
    /\ getWords = "none"
    /\ lastIndex = 0
    /\ comprehensionStats = "null"
    /\ ModuleLevelState

\* extractHebrewWords(text, minLength, ignoreBrackets)
Call_extractHebrewWords ==
    /\ call = "none"
    /\ call' = "extractHebrewWords"
    /\ \E minLength \in MinLengths, ignoreBrackets \in BOOLEAN :
          /\ args' = [minLength |-> minLength,
                      ignoreBrackets |-> ignoreBrackets]
          /\ ret' = extractHebrewWords(text, minLength, ignoreBrackets)
    /\ lastIndex' = IF Len(text) = 0 THEN lastIndex ELSE 0
    /\ UNCHANGED <<word, text, units, matureWords, learningWords, getWords,
                   comprehensionStats>>
    /\ UNCHANGED coordinatorVars

NextText == Call_extractHebrewWords

SpecText == InitText /\ [][NextText]_vars

-----------------------------------------------------------------------------
(* Tokens of a text, position by position                                  *)

\* t without its spans from an opening bracket to the next closing one,
\* read character by character: outside a span an opening bracket that has
\* a closing bracket somewhere after it starts a span, inside a span the
\* closing bracket ends it
RECURSIVE OutsideSpans(_, _, _, _, _)
OutsideSpans(t, i, open, close, inside) ==
    IF i > Len(t) THEN << >>
    ELSE IF inside
         THEN OutsideSpans(t, i + 1, open, close, t[i] # close)
         ELSE IF t[i] = open /\ \E j \in (i + 1)..Len(t) : t[j] = close
              THEN OutsideSpans(t, i + 1, open, close, TRUE)
              ELSE <<t[i]>> \o OutsideSpans(t, i + 1, open, close, FALSE)

\* [...] spans deleted first, then full-width (...) spans, then ASCII (...)
WithoutBracketSpans(t) ==
    OutsideSpans(
        OutsideSpans(OutsideSpans(t, 1, 91, 93, FALSE), 1, 65288, 65289, FALSE),
        1, 40, 41, FALSE)

InHebrewBlock(c) == c >= 1424 /\ c <= 1535

\* where the maximal runs of Hebrew-block characters of t start
RunStarts(t) ==
    {i \in 1..Len(t) : InHebrewBlock(t[i]) /\ (i = 1 \/ ~InHebrewBlock(t[i - 1]))}

\* the maximal run that starts at i
RunAt(t, i) ==
    LET ends == {j \in i..Len(t) : \A k \in i..j : InHebrewBlock(t[k])} IN
    SubSeq(t, i, CHOOSE j \in ends : \A k \in ends : k <= j)

\* the maximal runs of t of diacritic-stripped length >= minLength, in
\* text order
RunsOfLength(t, minLength) ==
    LET kept == {i \in RunStarts(t) : Len(Stripped(RunAt(t, i))) >= minLength}
        nth(k) == CHOOSE i \in kept : Cardinality({j \in kept : j < i}) = k - 1
    IN  [k \in 1..Cardinality(kept) |-> RunAt(t, nth(k))]

HasBracket(t) == \E i \in 1..Len(t) : t[i] \in {91, 93, 40, 41, 65288, 65289}

(* C17: extractHebrewWords(text, minLength, ignoreBrackets) returns, in    *)
(* text order, exactly the maximal runs of U+0590..U+05FF characters of    *)
(* the text (after deleting every [...], full-width (...) and ASCII (...)  *)
(* span when ignoreBrackets is true, of the unmodified text when it is     *)
(* false) whose diacritic-stripped length is at least minLength; a run     *)
(* made only of diacritics is dropped when minLength >= 1.                 *)
C17_ExtractsMaximalRuns ==
    call = "extractHebrewWords" =>
        /\ ret = RunsOfLength(IF args.ignoreBrackets
                              THEN WithoutBracketSpans(text) ELSE text,
                              args.minLength)
        /\ args.minLength >= 1 =>
              \A k \in 1..Len(ret) : Stripped(ret[k]) # << >>

\* a word in square brackets is left out, the word after the span is kept
C17_Witness ==
    /\ call = "extractHebrewWords"
    /\ args = [minLength |-> 1, ignoreBrackets |-> TRUE]
    /\ text = <<91, 1488, 93, 1488>>
    /\ ret = <<<<1488>>>>

(* C18: round trip: for a text with no brackets, extracting the Hebrew     *)
(* tokens, joining them with single spaces and extracting again yields     *)
(* the same set of tokens as the first extraction, for every minLength.    *)
C18_RoundTrip ==
    (call = "extractHebrewWords" /\ ~HasBracket(text)) =>
        LET again == extractHebrewWords(JoinWords(ret), args.minLength,
                                        args.ignoreBrackets)
        IN  {again[k] : k \in 1..Len(again)} = {ret[k] : k \in 1..Len(ret)}

\* two tokens, one of them with a diacritic, in a text that is not already
\* the tokens joined by single spaces
C18_Witness ==
    /\ call = "extractHebrewWords"
    /\ ~HasBracket(text)
    /\ Len(ret) = 2
    /\ \E k \in 1..2 : HasDiacritics(ret[k])
    /\ text # JoinWords(ret)

-----------------------------------------------------------------------------
(* Inputs of the sentence segmentation                                     *)

\* clauses: alef-dalet alef-dalet gimel-gimel; alef-dalet three times;
\* alef-dalet gimel-gimel; alef-dalet alef-dalet bet-alef-dalet;
\* gimel-gimel he-he alef-dalet
ClausePool ==
    {JoinWords(<<<<1488, 1491>>, <<1488, 1491>>, <<1490, 1490>>>>),
     JoinWords(<<<<1488, 1491>>, <<1488, 1491>>, <<1488, 1491>>>>),
     JoinWords(<<<<1488, 1491>>, <<1490, 1490>>>>),
     JoinWords(<<<<1488, 1491>>, <<1488, 1491>>, <<BET, 1488, 1491>>>>),
     JoinWords(<<<<1490, 1490>>, <<1492, 1492>>, <<1488, 1491>>>>)}

\* what stands between two clauses: a newline, ".", "!", "?", sof pasuq,
\* a space, ". ", "?!", a newline after a space
SeparatorPool ==
    {<<10>>, <<46>>, <<33>>, <<63>>, <<1475>>, <<32>>, <<46, 32>>, <<63, 33>>,
     <<32, 10>>}

InitSegments ==
    /\ units \in {<<a \o sep \o b>> :
                     a \in ClausePool, sep \in SeparatorPool, b \in ClausePool}
    /\ matureWords \in SUBSET SentenceVocabulary
    /\ learningWords \in SUBSET SentenceVocabulary
    /\ word = << >>
    /\ text = << >>
    /\ call = "none"
    /\ ret = "none"
    /\ args = << >>
    /\ getWords = "none"
    /\ lastIndex = 0
    /\ comprehensionStats = "null"
    /\ ModuleLevelState

NextSegments == Call_highlightSentences

SpecSegments == InitSegments /\ [][NextSegments]_vars

\* a character that ends a segment: ".", "!", "?", sof pasuq, and the
\* newline when the segmenter is newline-sensitive
SegmentBoundary(c, newlineSensitive) ==
    c \in {46, 33, 63, 1475} \/ (newlineSensitive /\ c = 10)

\* where the segments of t start
SegmentStarts(t, newlineSensitive) ==
    {i \in 1..Len(t) :
        /\ ~SegmentBoundary(t[i], newlineSensitive)
        /\ i = 1 \/ SegmentBoundary(t[i - 1], newlineSensitive)}

\* the segment that starts at i, up to the boundary that ends it
SegmentAt(t, i, newlineSensitive) ==
    LET ends == {j \in i..Len(t) :
                    \A k \in i..j : ~SegmentBoundary(t[k], newlineSensitive)}
    IN  SubSeq(t, i, CHOOSE j \in ends : \A k \in ends : k <= j)

\* the page is newline-sensitive unless it is the video-subtitle platform
NewlineSensitive == ~args.isNetflix

(* C19: sentence segmentation splits on ".", "!", "?" and sof pasuq on     *)
(* every platform; a newline is a boundary when the segmenter is           *)
(* newline-sensitive (ordinary pages) and is not when it is not            *)
(* (video-subtitle platform): the sentences highlightSentences counts are  *)
(* the segments so cut, and two clauses separated only by a newline are    *)
(* two segments in the first mode and one in the second.                   *)
C19_SegmentationModes ==
    (call = "highlightSentences" /\ Len(units) = 1) =>
        LET starts == SegmentStarts(units[1], NewlineSensitive) IN
        /\ ret.i1Count =
              Cardinality({i \in starts :
                  IsIPlus1Text(SegmentAt(units[1], i, NewlineSensitive))})
        /\ ret.potentiallyI1Count =
              Cardinality({i \in starts :
                  IsPotentiallyIPlus1Text(
                      SegmentAt(units[1], i, NewlineSensitive))})

\* two i+1 clauses with only a newline between them, on an ordinary page:
\* two sentences are counted
C19_Witness ==
    /\ call = "highlightSentences"
    /\ args.isNetflix = FALSE
    /\ units = <<<<1488, 1491, 32, 1488, 1491, 32, 1490, 1490, 10,
                   1488, 1491, 32, 1488, 1491, 32, 1490, 1490>>>>
    /\ ret.i1Count = 2

-----------------------------------------------------------------------------
(* background.js: fetchHebrewWords                                         *)
(*                                                                         *)
(* A card is [words, type, interval]: words is noteWordsMap.get(card.note) *)
(* (the diacritic-stripped Hebrew words of the card's note, << >> when the *)
(* note has none), type is card.type (0 new, 1 learning, 2 review),        *)
(* interval is card.interval in days.  A state of the sync is [mature,     *)
(* learning], the two Sets being built.                                    *)

\* settings.settings?.matureThreshold || 21, the setting left unset
matureThreshold == 21

MatureKeepsLearning(sets, w, cardType, interval) ==
    IF cardType = 2 /\ interval >= matureThreshold
    THEN [mature |-> sets.mature \cup {w}, learning |-> sets.learning]
    ELSE IF cardType = 1
            \/ (cardType = 2 /\ interval > 0 /\ interval < matureThreshold)
    THEN IF w \notin sets.mature
         THEN [mature |-> sets.mature, learning |-> sets.learning \cup {w}]
         ELSE sets
    ELSE sets

\* the body of words.forEach(word => ...) in the cards pass
ProcessWord(sets, w, cardType, interval) ==
    IF cardType = 2 /\ interval >= matureThreshold
    THEN [mature |-> sets.mature \cup {w}, learning |-> sets.learning \ {w}]
    ELSE IF cardType = 1
            \/ (cardType = 2 /\ interval > 0 /\ interval < matureThreshold)
    THEN IF w \notin sets.mature
         THEN [mature |-> sets.mature, learning |-> sets.learning \cup {w}]
         ELSE sets
    ELSE sets

\* words.forEach over the words of one card, from index i on
RECURSIVE ProcessWords(_, _, _)
ProcessWords(sets, card, i) ==
    IF i > Len(card.words) THEN sets
    ELSE ProcessWords(
             ProcessWord(sets, card.words[i], card.type, card.interval),
             card, i + 1)

\* cardsInfo.forEach(card => ...), from index i on
RECURSIVE ProcessCards(_, _, _)
ProcessCards(sets, cards, i) ==
    IF i > Len(cards) THEN sets
    ELSE ProcessCards(ProcessWords(sets, cards[i], 1), cards, i + 1)

\* the "Already Known" deck pass: every word of every note of the deck
\* becomes mature and leaves learning; alreadyKnown.words is the sequence of
\* those words, alreadyKnown.failed tells that the AnkiConnect request threw
\* (caught, the pass is skipped)
RECURSIVE AddAlreadyKnown(_, _, _)
AddAlreadyKnown(sets, alreadyKnown, i) ==
    IF alreadyKnown.failed THEN sets
    ELSE IF i > Len(alreadyKnown.words) THEN sets
    ELSE AddAlreadyKnown(
             [mature |-> sets.mature \cup {alreadyKnown.words[i]},
              learning |-> sets.learning \ {alreadyKnown.words[i]}],
             alreadyKnown, i + 1)

\* the two Sets at the end of fetchHebrewWords, for a non-empty findCards
\* answer
SyncedSets(cards, alreadyKnown) ==
    AddAlreadyKnown(
        ProcessCards([mature |-> {}, learning |-> {}], cards, 1),
        alreadyKnown, 1)

-----------------------------------------------------------------------------
(* Inputs of fetchHebrewWords                                              *)

MaxCards == 2

\* alef-dalet, gimel-gimel
SyncWords == {<<1488, 1491>>, <<1490, 1490>>}

\* new, learning and review cards, with interval 0, 5 or 21 days, on notes
\* holding one of the words or both
CardPool ==
    {[words |-> ws, type |-> ty, interval |-> days] :
        ws \in {<<<<1488, 1491>>>>, <<<<1490, 1490>>>>,
                <<<<1488, 1491>>, <<1490, 1490>>>>},
        ty \in {0, 1, 2}, days \in {0, 5, 21}}

AlreadyKnownInputs ==
    {[failed |-> TRUE, words |-> << >>],
     [failed |-> FALSE, words |-> << >>],
     [failed |-> FALSE, words |-> <<<<1488, 1491>>>>]}

InitSync ==
    /\ args \in {[cards |-> cards, alreadyKnown |-> known] :
                    cards \in UNION {[1..n -> CardPool] : n \in 0..MaxCards},
                    known \in AlreadyKnownInputs}
    /\ matureWords = {}
    /\ learningWords = {}
    /\ word = << >>
    /\ text = << >>
    /\ units = << >>
    /\ call = "none"
    /\ ret = "none"
    /\ getWords = "none"
    /\ lastIndex = 0
    /\ comprehensionStats = "null"
    /\ ModuleLevelState

\* fetchHebrewWords(): findCards answers with args.cards; with no card it
\* returns two empty lists and stores nothing, otherwise the two Sets are
\* built, stored as matureWords / learningWords and returned
Call_fetchHebrewWords ==
    /\ call = "none"
    /\ call' = "fetchHebrewWords"
    /\ IF Len(args.cards) = 0
       THEN /\ ret' = [mature |-> {}, learning |-> {}]
            /\ UNCHANGED <<matureWords, learningWords>>
       ELSE LET sets == SyncedSets(args.cards, args.alreadyKnown) IN
            /\ matureWords' = sets.mature
            /\ learningWords' = sets.learning
            /\ ret' = sets
    /\ UNCHANGED <<word, text, units, args, getWords, lastIndex,
                   comprehensionStats>>
    /\ UNCHANGED coordinatorVars

NextSync == Call_fetchHebrewWords

SpecSync == InitSync /\ [][NextSync]_vars

(* C20: after fetchHebrewWords has processed any cards in any order, the   *)
(* Already Known deck pass included, the stored mature and learning word   *)
(* lists are disjoint: no word is in both.                                 *)
C20_StoredListsDisjoint ==
    call = "fetchHebrewWords" =>
        /\ matureWords \cap learningWords = {}
        /\ ret.mature \cap ret.learning = {}

\* a word met on a learning card and then on a mature card ends up in the
\* mature list only
C20_Witness ==
    /\ call = "fetchHebrewWords"
    /\ Len(args.cards) = 2
    /\ args.cards[1] = [words |-> <<<<1488, 1491>>>>, type |-> 1, interval |-> 0]
    /\ args.cards[2] = [words |-> <<<<1488, 1491>>>>, type |-> 2, interval |-> 21]
    /\ <<1488, 1491>> \in matureWords
    /\ <<1488, 1491>> \notin learningWords

-----------------------------------------------------------------------------
(* The three classifiers run on the same normalized word                   *)
(*                                                                         *)
(* args records what each implementation returned for the word of the      *)
(* state: wordHighlighter for word-highlighter.js getWordType, coordinator *)
(* for the content coordinator's getWordType, hebrewText for               *)
(* hebrew-text.js getWordKnownType ("none" until it has been called).      *)

\* normalized words: no character of the diacritic range
NormalizedWordInputs ==
    StringsUpTo(WordAlphabet \ {1460}, MaxWordLen) \ {<< >>}

InitClassifiers ==
    /\ word \in NormalizedWordInputs
    /\ matureWords \in SUBSET WordVocabulary
    /\ learningWords \in SUBSET WordVocabulary
    /\ args = [wordHighlighter |-> "none", coordinator |-> "none",
               hebrewText |-> "none"]
    /\ text = << >>
    /\ units = << >>
    /\ call = "none"
    /\ ret = "none"
    /\ getWords = "none"
    /\ lastIndex = 0
    /\ comprehensionStats = "null"
    /\ ModuleLevelState

Classify_wordHighlighter ==
    /\ args.wordHighlighter = "none"
    /\ call' = "getWordType"
    /\ ret' = getWordType(word, matureWords, learningWords)
    /\ args' = [args EXCEPT !.wordHighlighter = ret']
    /\ UNCHANGED <<word, text, units, matureWords, learningWords, getWords,
                   lastIndex, comprehensionStats>>
    /\ UNCHANGED coordinatorVars

Classify_coordinator ==
    /\ args.coordinator = "none"
    /\ call' = "coordinatorGetWordType"
    /\ ret' = coordinatorGetWordType(word, matureWords, learningWords)
    /\ args' = [args EXCEPT !.coordinator = ret']
    /\ UNCHANGED <<word, text, units, matureWords, learningWords, getWords,
                   lastIndex, comprehensionStats>>
    /\ UNCHANGED coordinatorVars

Classify_hebrewText ==
    /\ args.hebrewText = "none"
    /\ call' = "getWordKnownType"
    /\ ret' = getWordKnownType(word, matureWords, learningWords)
    /\ args' = [args EXCEPT !.hebrewText = ret']
    /\ UNCHANGED <<word, text, units, matureWords, learningWords, getWords,
                   lastIndex, comprehensionStats>>
    /\ UNCHANGED coordinatorVars

NextClassifiers ==
    \/ Classify_wordHighlighter
    \/ Classify_coordinator
    \/ Classify_hebrewText

SpecClassifiers == InitClassifiers /\ [][NextClassifiers]_vars

\* the three-way reading of a four-way result
ThreeWay(result) ==
    IF result \in {"mature", "learning"} THEN "known" ELSE result

AllClassified ==
    /\ args.wordHighlighter # "none"
    /\ args.coordinator # "none"
    /\ args.hebrewText # "none"

(* C27: for every normalized word and every vocabulary the three           *)
(* classifiers agree: getWordKnownType returns 'known' exactly when the    *)
(* two getWordType implementations return 'mature' or 'learning', and all  *)
(* three return 'potentially-known' on the same inputs and 'unknown' on    *)
(* the same inputs.                                                        *)
C27_ClassifiersAgree ==
    AllClassified =>
        /\ args.hebrewText \in {"known", "potentially-known", "unknown"}
        /\ ThreeWay(args.wordHighlighter) = args.hebrewText
        /\ ThreeWay(args.coordinator) = args.hebrewText

\* a word known only through its leading vav, classified by all three
C27_Witness ==
    /\ AllClassified
    /\ Len(word) > 1
    /\ word[1] = 1493
    /\ word \notin matureWords \cup learningWords
    /\ args.hebrewText = "known"
    /\ args.coordinator = "learning"
    /\ args.wordHighlighter = "learning"

-----------------------------------------------------------------------------
(* What the statement on the order of cards means by its words             *)

CardsOf(w) ==
    {i \in 1..Len(args.cards) :
        \E k \in 1..Len(args.cards[i].words) : args.cards[i].words[k] = w}

HasMatureCard(w) ==
    \E i \in CardsOf(w) :
        args.cards[i].type = 2 /\ args.cards[i].interval >= 21

HasLearningCard(w) ==
    \E i \in CardsOf(w) :
        \/ args.cards[i].type = 1
        \/ /\ args.cards[i].type = 2
           /\ args.cards[i].interval > 0
           /\ args.cards[i].interval < 21

InAlreadyKnownDeck(w) ==
    \E k \in 1..Len(args.alreadyKnown.words) : args.alreadyKnown.words[k] = w

(* C29: the result of fetchHebrewWords does not depend on the order of the *)
(* cards: a word ends in mature exactly when one of its cards is a review  *)
(* card with interval >= matureThreshold or it occurs in the Already Known *)
(* deck, and in learning exactly when it is not mature and one of its      *)
(* cards is a learning card or a review card with 0 < interval <           *)
(* matureThreshold.                                                        *)
C29_ResultIndependentOfOrder ==
    call = "fetchHebrewWords" =>
        /\ ret.mature \cup ret.learning \subseteq SyncWords
        /\ \A w \in SyncWords :
              /\ w \in ret.mature <=> (HasMatureCard(w) \/ InAlreadyKnownDeck(w))
              /\ w \in ret.learning <=>
                     (w \notin ret.mature /\ HasLearningCard(w))

\* the same, for the syncs whose findCards query found at least one card
C29_IndependentWhenCardsFound ==
    (call = "fetchHebrewWords" /\ Len(args.cards) > 0) =>
        /\ ret.mature \cup ret.learning \subseteq SyncWords
        /\ \A w \in SyncWords :
              /\ w \in ret.mature <=> (HasMatureCard(w) \/ InAlreadyKnownDeck(w))
              /\ w \in ret.learning <=>
                     (w \notin ret.mature /\ HasLearningCard(w))

-----------------------------------------------------------------------------
(* C30: for any list of subtitles and any vocabulary the stats returned by *)
(* calculateComprehensionStats satisfy known >= 0, potentiallyKnown >= 0,  *)
(* known + potentiallyKnown <= total, 0 <= percentage <= 100, and          *)
(* i1Sentences + potentiallyI1Sentences <= the number of units that have   *)
(* at least 3 Hebrew tokens.                                               *)
C30_StatsWithinBounds ==
    call \in {"calculateComprehensionStats",
              "SubtitleReaderBase.calculateComprehensionStats"} =>
        /\ ret.known >= 0
        /\ ret.potentiallyKnown >= 0
        /\ ret.known + ret.potentiallyKnown <= ret.total
        /\ ret.percentage >= 0
        /\ ret.percentage <= 100
        /\ ret.i1Sentences >= 0
        /\ ret.potentiallyI1Sentences >= 0
        /\ ret.i1Sentences + ret.potentiallyI1Sentences
               <= CountUnits(ClassifiableText)

\* two units of three tokens, one counted in each tally, next to a unit
\* count that leaves no slack
C30_Witness ==
    /\ StatsComputed
    /\ Len(units) = 2
    /\ CountUnits(ClassifiableText) = 2
    /\ ret.i1Sentences = 1
    /\ ret.potentiallyI1Sentences = 1
    /\ ret.known + ret.potentiallyKnown < ret.total

-----------------------------------------------------------------------------
(* Subtitle cues: handleSubtitleUpdate (overlay) and                       *)
(* SubtitleReaderBase.populateSubtitleBrowser (browser item)               *)
(*                                                                         *)
(* A styled cue is [background, classes, title, isI1, potentiallyChecked]: *)
(* background is the colour given to the cue ("sentenceColor" for the      *)
(* configured i+1 colour, "#e6d5f5" the light purple, "none" when it is    *)
(* left alone), classes the sentence classes added, title the sentence     *)
(* part of the tooltip, isI1 what the i+1 check answered, and              *)
(* potentiallyChecked whether checkIfPotentiallyI1Sentence was evaluated.  *)

AlwaysCheckPotentiallyI1(enabled, isI1, sentenceText, mature, learning) ==
    [applied |-> TRUE,
     value |-> checkIfPotentiallyI1Sentence(sentenceText, mature, learning)]

\* enabled && !isI1 && checkIfPotentiallyI1Sentence(...): the call is made
\* only when the operands before it are true
ShortCircuitPotentiallyI1(enabled, isI1, sentenceText, mature, learning) ==
    [applied |-> enabled /\ ~isI1,
     value |-> /\ enabled
               /\ ~isI1
               /\ checkIfPotentiallyI1Sentence(sentenceText, mature, learning)]

UnstyledCue ==
    [background |-> "none", classes |-> {}, title |-> "none",
     isI1 |-> FALSE, potentiallyChecked |-> FALSE]

\* handleSubtitleUpdate(subtitleElement, platform): the sentence styling
\* given to the word spans of the cue
handleSubtitleUpdate(subtitleText, enabled, sentenceEnabled, mature, learning) ==
    IF ~enabled THEN UnstyledCue
    ELSE IF ~sentenceEnabled THEN UnstyledCue
    ELSE LET isI1 == checkIfI1Sentence(subtitleText, mature, learning)
             isPotentiallyI1 ==
                 ShortCircuitPotentiallyI1(TRUE, isI1, subtitleText, mature,
                                           learning)
         IN  IF isI1
             THEN [background |-> "sentenceColor",
                   classes |-> {"anki-sentence-highlight"},
                   title |-> "i+1 sentence",
                   isI1 |-> TRUE,
                   potentiallyChecked |-> isPotentiallyI1.applied]
             ELSE IF isPotentiallyI1.value
             THEN [background |-> "#e6d5f5",
                   classes |-> {"anki-sentence-highlight"},
                   title |-> "potentially i+1 sentence",
                   isI1 |-> FALSE,
                   potentiallyChecked |-> isPotentiallyI1.applied]
             ELSE [UnstyledCue EXCEPT
                      !.potentiallyChecked = isPotentiallyI1.applied]

\* populateSubtitleBrowser: the item built for one subtitle
populateSubtitleBrowser(subText, sentenceEnabled, mature, learning) ==
    LET itemIsI1 ==
            sentenceEnabled /\ checkIfI1Sentence(subText, mature, learning)
        itemIsPotentiallyI1 ==
            ShortCircuitPotentiallyI1(sentenceEnabled, itemIsI1, subText,
                                      mature, learning)
    IN  [background |-> IF itemIsI1 THEN "sentenceColor"
                        ELSE IF itemIsPotentiallyI1.value THEN "#e6d5f5"
                        ELSE "none",
         classes |-> IF itemIsI1 THEN {"anki-i1-sentence"}
                     ELSE IF itemIsPotentiallyI1.value
                     THEN {"anki-potentially-i1-sentence"}
                     ELSE {},
         title |-> IF itemIsI1 THEN "i+1 sentence"
                   ELSE IF itemIsPotentiallyI1.value
                   THEN "potentially i+1 sentence"
                   ELSE "none",
         isI1 |-> itemIsI1,
         potentiallyChecked |-> itemIsPotentiallyI1.applied]

\* a subtitle event for the cue of the state, under any settings
Call_handleSubtitleUpdate ==
    /\ call = "none"
    /\ call' = "handleSubtitleUpdate"
    /\ \E enabled \in BOOLEAN, sentenceEnabled \in BOOLEAN :
          /\ args' = [highlightEnabled |-> enabled,
                      sentenceHighlightEnabled |-> sentenceEnabled]
          /\ ret' = handleSubtitleUpdate(text, enabled, sentenceEnabled,
                                         matureWords, learningWords)
          /\ lastIndex' = IF enabled /\ sentenceEnabled /\ Len(text) > 0
                          THEN 0 ELSE lastIndex
    /\ UNCHANGED <<word, text, units, matureWords, learningWords, getWords,
                   comprehensionStats>>
    /\ UNCHANGED coordinatorVars

\* the subtitle browser filled with the cue of the state
Call_populateSubtitleBrowser ==
    /\ call = "none"
    /\ call' = "populateSubtitleBrowser"
    /\ \E sentenceEnabled \in BOOLEAN :
          /\ args' = [highlightEnabled |-> TRUE,
                      sentenceHighlightEnabled |-> sentenceEnabled]
          /\ ret' = populateSubtitleBrowser(text, sentenceEnabled,
                                            matureWords, learningWords)
          /\ lastIndex' = IF sentenceEnabled /\ Len(text) > 0 THEN 0
                          ELSE lastIndex
    /\ UNCHANGED <<word, text, units, matureWords, learningWords, getWords,
                   comprehensionStats>>
    /\ UNCHANGED coordinatorVars

NextCue ==
    \/ Call_handleSubtitleUpdate
    \/ Call_populateSubtitleBrowser

SpecCue == Init /\ [][NextCue]_vars

CueCall == call \in {"handleSubtitleUpdate", "populateSubtitleBrowser"}

\* the settings let the sentence checks run and the i+1 check answers true
I1CheckTrue ==
    /\ args.highlightEnabled
    /\ args.sentenceHighlightEnabled
    /\ checkIfI1Sentence(text, matureWords, learningWords)

IPlus1Marks == {"sentenceColor", "anki-i1-sentence", "i+1 sentence"}
PotentiallyIPlus1Marks ==
    {"#e6d5f5", "anki-potentially-i1-sentence", "potentially i+1 sentence"}

CueMarks == {ret.background, ret.title} \cup ret.classes

(* C21: i+1 takes display priority over potentially-i+1: in the subtitle   *)
(* overlay and in the subtitle browser a cue is never styled or tagged as  *)
(* both, and when the i+1 check is true the cue gets the i+1 styling and   *)
(* the potentially-i+1 check is not applied.                               *)
C21_I1DisplayPriority ==
    CueCall =>
        /\ ~(CueMarks \cap IPlus1Marks # {}
             /\ CueMarks \cap PotentiallyIPlus1Marks # {})
        /\ I1CheckTrue =>
              /\ ret.background = "sentenceColor"
              /\ ret.title = "i+1 sentence"
              /\ CueMarks \cap PotentiallyIPlus1Marks = {}
              /\ ~ret.potentiallyChecked
        /\ ~I1CheckTrue => CueMarks \cap IPlus1Marks = {}

\* a cue for which both checks would answer true, styled as i+1
C21_Witness ==
    /\ CueCall
    /\ I1CheckTrue
    /\ checkIfPotentiallyI1Sentence(text, matureWords, learningWords)
    /\ ret.background = "sentenceColor"
    /\ ~ret.potentiallyChecked

-----------------------------------------------------------------------------
(* The page, as the highlighters see it                                    *)
(*                                                                         *)
(* body is the sequence of the elements that hold page text, each with one *)
(* text node: [text, wordHighlight, sentenceHighlight].  wordHighlight     *)
(* tells whether the Hebrew words of the text node have been replaced by   *)
(* word-highlight spans, and with which vocabulary their classes were      *)
(* computed.  sentenceHighlight tells where the sentence-highlight class   *)
(* sits ("element": on the element, "spans": on its word spans, "none"),   *)
(* and with which vocabulary it was computed.                              *)

NoWordHighlight == [applied |-> FALSE, mature |-> {}, learning |-> {}]
NoSentenceHighlight == [where |-> "none", mature |-> {}, learning |-> {}]

\* HEBREW_WORD_REGEX.test(textContent) with lastIndex reset before it
TestHebrew(t) == \E i \in 1..Len(t) : IsHebrewChar(t[i])

\* the acceptNode filter of highlightWords: a text node outside a
\* word-highlight span, holding Hebrew text
AcceptsTextNode(node) == ~node.wordHighlight.applied /\ TestHebrew(node.text)

\* nodesToProcess of highlightWords, as the textContent of each node
NodesToProcess(nodes) ==
    LET accepted == SelectSeq(nodes, AcceptsTextNode)
    IN  [k \in 1..Len(accepted) |-> accepted[k].text]

\* the page after highlightWords: every accepted text node replaced by a
\* fragment of word-highlight spans
HighlightedBody(nodes, mature, learning) ==
    [i \in 1..Len(nodes) |->
        IF AcceptsTextNode(nodes[i])
        THEN [nodes[i] EXCEPT !.wordHighlight =
                 [applied |-> TRUE, mature |-> mature, learning |-> learning]]
        ELSE nodes[i]]

\* the page after removeHighlights: every word-highlight span replaced by a
\* text node (a sentence class carried by the spans goes with them)
UnhighlightedBody(nodes) ==
    [i \in 1..Len(nodes) |->
        [nodes[i] EXCEPT
            !.wordHighlight = NoWordHighlight,
            !.sentenceHighlight =
                IF @.where = "spans" THEN NoSentenceHighlight ELSE @]]

\* the page after removeSentenceHighlights
WithoutSentenceHighlights(nodes) ==
    [i \in 1..Len(nodes) |->
        [nodes[i] EXCEPT !.sentenceHighlight = NoSentenceHighlight]]

\* window.location.hostname.includes('netflix.com'), on the pages modelled
\* here
hostnameIsNetflix == FALSE

\* the elements highlightSentences puts in elementsToProcess: Hebrew text,
\* no sentence-highlight class on the element, and not an element whose
\* only child is one word-highlight span
ProcessesElement(node) ==
    /\ TestHebrew(node.text)
    /\ node.sentenceHighlight.where # "element"
    /\ ~(node.wordHighlight.applied /\ HebrewMatches(node.text) = <<node.text>>)

ElementsToProcess(nodes) ==
    LET accepted == SelectSeq(nodes, ProcessesElement)
    IN  [k \in 1..Len(accepted) |-> accepted[k].text]

\* the sentences array of one element
SentencesOf(t, mature, learning) ==
    SentenceObjects(SentenceMatches(t, 1, hostnameIsNetflix, << >>), 1, << >>,
                    mature, learning)

\* where highlightSentences puts the sentence-highlight class for an
\* element it processes: on the element when its text is one sentence
\* (highlightSentenceElement), on its word spans otherwise
\* (wrapI1SentencesInElement, which returns at once without word spans)
SentenceHighlightOf(node, mature, learning) ==
    CHOOSE highlight \in
        {LET marked == \E k \in 1..Len(sentences) :
                          isI1Sentence(sentences[k])
                              \/ isPotentiallyI1Sentence(sentences[k])
         IN  IF ~marked
             THEN node.sentenceHighlight
             ELSE IF Len(sentences) = 1
             THEN [where |-> "element", mature |-> mature,
                   learning |-> learning]
             ELSE IF node.wordHighlight.applied
             THEN [where |-> "spans", mature |-> mature,
                   learning |-> learning]
             ELSE node.sentenceHighlight :
         sentences \in {SentencesOf(node.text, mature, learning)}} : TRUE

\* the page after highlightSentences
SentenceHighlightedBody(nodes, mature, learning) ==
    [i \in 1..Len(nodes) |->
        IF ProcessesElement(nodes[i])
        THEN [nodes[i] EXCEPT !.sentenceHighlight =
                 SentenceHighlightOf(nodes[i], mature, learning)]
        ELSE nodes[i]]

-----------------------------------------------------------------------------
(* The steps the coordinator's handlers are made of                        *)
(*                                                                         *)
(* A handler works on s = [body, pageStats, isHighlighted,                 *)
(* isSentenceHighlighted, calls, mutated]: mutated tells whether the       *)
(* handler has added nodes holding Hebrew text to the page so far (spans   *)
(* put in by highlightWords, text nodes put back by removeHighlights).     *)

HandlerStart ==
    [body |-> body, pageStats |-> pageStats, isHighlighted |-> isHighlighted,
     isSentenceHighlighted |-> isSentenceHighlighted, calls |-> << >>,
     mutated |-> FALSE]

\* pageStats = { ...pageStats, ...stats }
MergeStats(stats, wordStats) ==
    CHOOSE merged \in
        {[stats EXCEPT !.total = w.total, !.known = w.known,
                       !.unknown = w.unknown] : w \in {wordStats}} : TRUE

\* window.removeSentenceHighlights()
CallRemoveSentenceHighlights(s) ==
    [s EXCEPT !.body = WithoutSentenceHighlights(@),
              !.calls = Append(@, "removeSentenceHighlights")]

\* const resetStats = window.removeHighlights();
\* pageStats = { ...pageStats, ...resetStats };
CallRemoveHighlights(s) ==
    [s EXCEPT !.body = UnhighlightedBody(@),
              !.pageStats = MergeStats(@, [total |-> 0, known |-> 0,
                                           unknown |-> 0]),
              !.calls = Append(@, "removeHighlights"),
              !.mutated = @ \/ \E i \in 1..Len(s.body) :
                                   s.body[i].wordHighlight.applied]

\* const stats = window.highlightWords(matureWords, learningWords);
\* pageStats = { ...pageStats, ...stats }; isHighlighted = true;
CallHighlightWords(s, mature, learning) ==
    [s EXCEPT !.body = HighlightedBody(@, mature, learning),
              !.pageStats = MergeStats(@,
                  highlightWords(NodesToProcess(s.body), mature, learning)),
              !.isHighlighted = TRUE,
              !.calls = Append(@, "highlightWords"),
              !.mutated = @ \/ \E i \in 1..Len(s.body) :
                                   AcceptsTextNode(s.body[i])]

\* const {i1Count, potentiallyI1Count} = window.highlightSentences(...);
\* pageStats.i1Sentences = i1Count; ...; isSentenceHighlighted = true;
CallHighlightSentences(s, mature, learning) ==
    [s EXCEPT !.body = SentenceHighlightedBody(@, mature, learning),
              !.pageStats = CHOOSE stats \in
                  {[@ EXCEPT
                      !.i1Sentences = counts.i1Count,
                      !.potentiallyI1Sentences = counts.potentiallyI1Count] :
                   counts \in {highlightSentences(ElementsToProcess(s.body),
                                   hostnameIsNetflix, mature, learning)}} :
                  TRUE,
              !.isSentenceHighlighted = TRUE,
              !.calls = Append(@, "highlightSentences")]

\* if (isSentenceHighlighted) { removeSentenceHighlights();
\*                              isSentenceHighlighted = false; }
RemoveSentencesIfHighlighted(s) ==
    IF s.isSentenceHighlighted
    THEN [CallRemoveSentenceHighlights(s) EXCEPT
             !.isSentenceHighlighted = FALSE]
    ELSE s

KeepWordHighlights(s) == s

\* if (isHighlighted) { ... removeHighlights() ...; isHighlighted = false; }
RemoveWordsIfHighlighted(s) ==
    IF s.isHighlighted
    THEN [CallRemoveHighlights(s) EXCEPT !.isHighlighted = FALSE]
    ELSE s

\* if (condition) { ... highlightWords(...) ...; isHighlighted = true; }
HighlightWordsIf(condition, s, mature, learning) ==
    IF condition THEN CallHighlightWords(s, mature, learning) ELSE s

\* if (condition) { ... highlightSentences(...) ...;
\*                  isSentenceHighlighted = true; }
HighlightSentencesIf(condition, s, mature, learning) ==
    IF condition THEN CallHighlightSentences(s, mature, learning) ELSE s

SentencesBeforeWords(s0, removeFirst, wordsFirst, thenSentences, mature, learning) ==
    HighlightWordsIf(wordsFirst,
        HighlightSentencesIf(thenSentences,
            IF removeFirst
            THEN RemoveWordsIfHighlighted(RemoveSentencesIfHighlighted(s0))
            ELSE s0,
            mature, learning),
        mature, learning)

\* the recompute sequence shared by the handlers: the two removals, then
\* word highlighting if wordsFirst, then sentence highlighting if
\* thenSentences, each statement working on what the one before it left
Recompute(s0, removeFirst, wordsFirst, thenSentences, mature, learning) ==
    CHOOSE s4 \in
        {HighlightSentencesIf(thenSentences, s3, mature, learning) :
            s3 \in {HighlightWordsIf(wordsFirst, s2, mature, learning) :
                s2 \in {IF removeFirst THEN RemoveWordsIfHighlighted(s1)
                        ELSE s1 :
                    s1 \in {IF removeFirst
                            THEN RemoveSentencesIfHighlighted(s0)
                            ELSE s0}}}} : TRUE

\* the records the page's own changes leave for the MutationObserver
OwnRecords(s) ==
    IF s.mutated THEN {[addedHebrew |-> TRUE, own |-> TRUE]} ELSE {}

-----------------------------------------------------------------------------
(* Timers                                                                  *)

\* setTimeout(..., 500)
DEBOUNCE_MS == 500

\* the step of the clock
TickMs == DEBOUNCE_MS \div 2

KeepTimer(pendingTimers, id) == pendingTimers

\* clearTimeout(id)
clearTimeout(pendingTimers, id) == {t \in pendingTimers : t.id # id}

\* the id setTimeout returns: the least one that no pending timer has
FreshTimerId(pendingTimers) ==
    CHOOSE n \in 1..(Cardinality(pendingTimers) + 1) :
        /\ \A t \in pendingTimers : t.id # n
        /\ \A m \in 1..(n - 1) : \E t \in pendingTimers : t.id = m

-----------------------------------------------------------------------------
(* The content coordinator                                                 *)

\* the vocabularies the background hands over
CoordinatorVocabularies ==
    {[mature |-> m, learning |-> l] :
        m \in SUBSET {<<1488, 1491>>}, l \in SUBSET {<<1490, 1490>>}}

\* the text a page element can hold: the two sentences
\* "alef-dalet alef-dalet gimel-gimel." and
\* "alef-dalet alef-dalet bet-alef-dalet", or the Latin letter x
PageTexts ==
    {<<1488, 1491, 32, 1488, 1491, 32, 1490, 1490, 46, 32,
       1488, 1491, 32, 1488, 1491, 32, BET, 1488, 1491>>,
     <<120>>}

MaxNodes == 1

NewNode(t) ==
    [text |-> t, wordHighlight |-> NoWordHighlight,
     sentenceHighlight |-> NoSentenceHighlight]

InitCoordinator ==
    /\ ModuleLevelState
    /\ matureWords = {}
    /\ learningWords = {}
    /\ word = << >>
    /\ text = << >>
    /\ units = << >>
    /\ call = "none"
    /\ ret = "none"
    /\ args = << >>
    /\ getWords = "none"
    /\ lastIndex = 0
    /\ comprehensionStats = "null"

\* what a handler leaves behind: reached is the state its steps reached
Finish(reached) ==
    \E s \in {reached} :
        /\ body' = s.body
        /\ pageStats' = s.pageStats
        /\ isHighlighted' = s.isHighlighted
        /\ isSentenceHighlighted' = s.isSentenceHighlighted
        /\ calls' = s.calls
        /\ mutationRecords' = OwnRecords(s)
        /\ lastIndex' = IF s.calls = << >> THEN lastIndex ELSE 0

\* the variables no coordinator handler touches
UNTOUCHED == <<word, text, units, getWords, comprehensionStats>>

\* what the background answers to 'getSettings': a rejection, an answer
\* without settings, or the settings
SettingsReplies ==
    {[outcome |-> "rejected", hasSettings |-> FALSE,
      highlightEnabled |-> FALSE, sentenceHighlightEnabled |-> FALSE],
     [outcome |-> "resolved", hasSettings |-> FALSE,
      highlightEnabled |-> FALSE, sentenceHighlightEnabled |-> FALSE]}
        \cup {[outcome |-> "resolved", hasSettings |-> TRUE,
               highlightEnabled |-> e, sentenceHighlightEnabled |-> se] :
                 e \in BOOLEAN, se \in BOOLEAN}

\* initialize(), with the replies to 'getWords' and 'getSettings'; a
\* rejection ends it in the catch block
Initialize ==
    /\ mutationRecords = {}
    /\ "initialize" \in pending
    /\ pending' = pending \ {"initialize"}
    /\ call' = "initialize"
    /\ \/ /\ UNCHANGED <<matureWords, learningWords, highlightEnabled,
                          sentenceHighlightEnabled>>
          /\ Finish(HandlerStart)
       \/ \E wordsData \in CoordinatorVocabularies,
             settingsData \in SettingsReplies :
             /\ matureWords' = wordsData.mature
             /\ learningWords' = wordsData.learning
             /\ IF settingsData.outcome = "rejected"
                THEN /\ UNCHANGED <<highlightEnabled,
                                    sentenceHighlightEnabled>>
                     /\ Finish(HandlerStart)
                ELSE /\ highlightEnabled' =
                            IF settingsData.hasSettings
                            THEN settingsData.highlightEnabled
                            ELSE highlightEnabled
                     /\ sentenceHighlightEnabled' =
                            IF settingsData.hasSettings
                            THEN settingsData.sentenceHighlightEnabled
                            ELSE sentenceHighlightEnabled
                     /\ LET hasWords == wordsData.mature # {}
                                            \/ wordsData.learning # {}
                        IN  Finish(Recompute(HandlerStart, FALSE,
                                       highlightEnabled' /\ hasWords,
                                       sentenceHighlightEnabled' /\ hasWords,
                                       wordsData.mature, wordsData.learning))
    /\ ret' = "none"
    /\ args' = << >>
    /\ UNCHANGED <<highlightTimeout, timers, elapsed>>
    /\ UNCHANGED UNTOUCHED

\* refreshWords(), from the reply to 'fetchWords' on (nothing is read or
\* written before the await)
RefreshWords_reply ==
    /\ mutationRecords = {}
    /\ call' = "refreshWords"
    /\ \E success \in BOOLEAN, response \in CoordinatorVocabularies :
          IF ~success
          THEN /\ ret' = FALSE
               /\ UNCHANGED <<matureWords, learningWords>>
               /\ Finish(HandlerStart)
          ELSE /\ ret' = TRUE
               /\ matureWords' = response.mature
               /\ learningWords' = response.learning
               /\ LET hasWords == response.mature # {} \/ response.learning # {}
                  IN  Finish(Recompute(HandlerStart, TRUE,
                                 highlightEnabled /\ hasWords,
                                 sentenceHighlightEnabled /\ hasWords,
                                 response.mature, response.learning))
    /\ args' = << >>
    /\ UNCHANGED <<highlightEnabled, sentenceHighlightEnabled,
                   highlightTimeout, timers, pending, elapsed>>
    /\ UNCHANGED UNTOUCHED

\* the 'toggleHighlightNow' message: toggleHighlight()
OnMessage_toggleHighlightNow ==
    /\ mutationRecords = {}
    /\ call' = "toggleHighlightNow"
    /\ LET s == IF isHighlighted
                THEN [CallRemoveHighlights(HandlerStart) EXCEPT
                         !.isHighlighted = FALSE]
                ELSE IF highlightEnabled
                THEN CallHighlightWords(HandlerStart, matureWords,
                                        learningWords)
                ELSE HandlerStart
       IN  /\ Finish(s)
           /\ ret' = [success |-> TRUE, isHighlighted |-> ~isHighlighted
                                                          /\ highlightEnabled]
    /\ args' = << >>
    /\ UNCHANGED <<matureWords, learningWords, highlightEnabled,
                   sentenceHighlightEnabled, highlightTimeout, timers,
                   pending, elapsed>>
    /\ UNCHANGED UNTOUCHED

\* what a storage change event can carry: the word keys, each absent or
\* with its new list, or the settings key with its new value
WordChanges(pool) ==
    {[changed |-> FALSE, newValue |-> {}]}
        \cup {[changed |-> TRUE, newValue |-> v] : v \in SUBSET pool}

SettingsChanges ==
    {[changed |-> TRUE, highlightEnabled |-> e,
      sentenceHighlightEnabled |-> se] : e \in BOOLEAN, se \in BOOLEAN}

StorageChanges ==
    {[matureWords |-> m, learningWords |-> l,
      settings |-> [changed |-> FALSE, highlightEnabled |-> TRUE,
                    sentenceHighlightEnabled |-> TRUE]] :
         m \in WordChanges({<<1488, 1491>>}),
         l \in WordChanges({<<1490, 1490>>})}
        \cup {[matureWords |-> [changed |-> FALSE, newValue |-> {}],
               learningWords |-> [changed |-> FALSE, newValue |-> {}],
               settings |-> c] : c \in SettingsChanges}

\* chrome.storage.onChanged, areaName 'local'
Storage_onChanged ==
    /\ mutationRecords = {}
    /\ call' = "storage.onChanged"
    /\ \E changes \in StorageChanges :
          /\ changes.matureWords.changed \/ changes.learningWords.changed
                \/ changes.settings.changed
          /\ matureWords' = IF changes.matureWords.changed
                            THEN changes.matureWords.newValue
                            ELSE matureWords
          /\ learningWords' = IF changes.learningWords.changed
                              THEN changes.learningWords.newValue
                              ELSE learningWords
          /\ highlightEnabled' =
                 IF changes.settings.changed
                 THEN changes.settings.highlightEnabled ELSE highlightEnabled
          /\ sentenceHighlightEnabled' =
                 IF changes.settings.changed
                 THEN changes.settings.sentenceHighlightEnabled
                 ELSE sentenceHighlightEnabled
          /\ args' = [matureWords |-> changes.matureWords,
                      learningWords |-> changes.learningWords]
          /\ LET needsReload ==
                     \/ changes.matureWords.changed
                     \/ changes.learningWords.changed
                     \/ highlightEnabled' # highlightEnabled
                     \/ sentenceHighlightEnabled' # sentenceHighlightEnabled
             IN  IF needsReload
                 THEN Finish(Recompute(HandlerStart, TRUE,
                                 highlightEnabled', sentenceHighlightEnabled',
                                 matureWords', learningWords'))
                 ELSE Finish(HandlerStart)
    /\ ret' = "none"
    /\ UNCHANGED <<highlightTimeout, timers, pending, elapsed>>
    /\ UNCHANGED UNTOUCHED

\* request.enabled and request.sentenceEnabled: both undefined, or the two
\* settings of the sender
OptionalFlags ==
    {[enabled |-> "undefined", sentenceEnabled |-> "undefined"]}
        \cup {[enabled |-> e, sentenceEnabled |-> se] :
                 e \in {"true", "false"}, se \in {"true", "false"}}

FlagOr(flag, current) ==
    IF flag = "undefined" THEN current ELSE flag = "true"

\* the 'refreshHighlights' message
OnMessage_refreshHighlights ==
    /\ mutationRecords = {}
    /\ call' = "refreshHighlights"
    /\ \E request \in CoordinatorVocabularies, flags \in OptionalFlags :
          /\ matureWords' = request.mature
          /\ learningWords' = request.learning
          /\ highlightEnabled' = FlagOr(flags.enabled, highlightEnabled)
          /\ sentenceHighlightEnabled' =
                 FlagOr(flags.sentenceEnabled, sentenceHighlightEnabled)
          /\ Finish(Recompute(HandlerStart, TRUE,
                        highlightEnabled', sentenceHighlightEnabled',
                        request.mature, request.learning))
    /\ ret' = [success |-> TRUE]
    /\ args' = << >>
    /\ UNCHANGED <<highlightTimeout, timers, pending, elapsed>>
    /\ UNCHANGED UNTOUCHED

\* the 'getPageStats' message: sendResponse(pageStats)
OnMessage_getPageStats ==
    /\ mutationRecords = {}
    /\ call' = "getPageStats"
    /\ ret' = pageStats
    /\ args' = << >>
    /\ calls' = << >>
    /\ UNCHANGED <<matureWords, learningWords, highlightEnabled,
                   sentenceHighlightEnabled, isHighlighted,
                   isSentenceHighlighted, pageStats, highlightTimeout, timers,
                   mutationRecords, body, pending, elapsed, lastIndex>>
    /\ UNCHANGED UNTOUCHED

\* a script of the page adds an element with text
Page_appendChild ==
    /\ mutationRecords = {}
    /\ Len(body) < MaxNodes
    /\ call' = "appendChild"
    /\ \E t \in PageTexts :
          /\ body' = Append(body, NewNode(t))
          /\ mutationRecords' = {[addedHebrew |-> TestHebrew(t), own |-> FALSE]}
    /\ ret' = "none"
    /\ args' = << >>
    /\ calls' = << >>
    /\ UNCHANGED <<matureWords, learningWords, highlightEnabled,
                   sentenceHighlightEnabled, isHighlighted,
                   isSentenceHighlighted, pageStats, highlightTimeout, timers,
                   pending, elapsed, lastIndex>>
    /\ UNCHANGED UNTOUCHED

\* a script of the page removes the first element
Page_removeChild ==
    /\ mutationRecords = {}
    /\ Len(body) > 0
    /\ call' = "removeChild"
    /\ body' = Tail(body)
    /\ mutationRecords' = {[addedHebrew |-> FALSE, own |-> FALSE]}
    /\ ret' = "none"
    /\ args' = << >>
    /\ calls' = << >>
    /\ UNCHANGED <<matureWords, learningWords, highlightEnabled,
                   sentenceHighlightEnabled, isHighlighted,
                   isSentenceHighlighted, pageStats, highlightTimeout, timers,
                   pending, elapsed, lastIndex>>
    /\ UNCHANGED UNTOUCHED

\* the MutationObserver callback, run with the queued records before any
\* other handler
Observer_callback ==
    /\ mutationRecords # {}
    /\ mutationRecords' = {}
    /\ call' = "observer"
    /\ LET shouldProcess ==
               /\ highlightEnabled
               /\ isHighlighted
               /\ \E record \in mutationRecords : record.addedHebrew
       IN  IF shouldProcess
           THEN LET kept == IF highlightTimeout # 0
                            THEN clearTimeout(timers, highlightTimeout)
                            ELSE timers
                    id == FreshTimerId(kept)
                IN  /\ timers' = kept \cup {[id |-> id,
                                             remaining |-> DEBOUNCE_MS]}
                    /\ highlightTimeout' = id
                    /\ elapsed' = 0
                    /\ lastIndex' = 0
                    /\ args' = [shouldProcess |-> TRUE,
                                own |-> \A record \in mutationRecords :
                                           record.own,
                                cleared |-> kept # timers]
           ELSE /\ UNCHANGED <<timers, highlightTimeout, elapsed>>
                /\ lastIndex' = IF highlightEnabled /\ isHighlighted
                                THEN 0 ELSE lastIndex
                /\ args' = [shouldProcess |-> FALSE,
                            own |-> \A record \in mutationRecords :
                                       record.own,
                            cleared |-> FALSE]
    /\ ret' = "none"
    /\ calls' = << >>
    /\ UNCHANGED <<matureWords, learningWords, highlightEnabled,
                   sentenceHighlightEnabled, isHighlighted,
                   isSentenceHighlighted, pageStats, body, pending>>
    /\ UNCHANGED UNTOUCHED

\* the debounce timer's callback, run when its delay has passed: nothing
\* while text is selected, else the re-highlight pass
Timeout_callback ==
    /\ mutationRecords = {}
    /\ \E t \in timers :
          /\ t.remaining = 0
          /\ timers' = timers \ {t}
    /\ call' = "highlightTimeout"
    /\ \E selection \in BOOLEAN :
          /\ args' = [selection |-> selection]
          /\ IF selection
             THEN Finish(HandlerStart)
             ELSE Finish(CHOOSE s4 \in
                     {IF sentenceHighlightEnabled
                      THEN CallHighlightSentences(s3, matureWords,
                                                  learningWords)
                      ELSE s3 :
                         s3 \in {IF sentenceHighlightEnabled
                                    /\ s2.isSentenceHighlighted
                                 THEN CallRemoveSentenceHighlights(s2)
                                 ELSE s2 :
                             s2 \in {CallHighlightWords(s1, matureWords,
                                                        learningWords) :
                                 s1 \in {IF isHighlighted
                                         THEN CallRemoveHighlights(
                                                  HandlerStart)
                                         ELSE HandlerStart}}}} : TRUE)
    /\ ret' = "none"
    /\ UNCHANGED <<matureWords, learningWords, highlightEnabled,
                   sentenceHighlightEnabled, highlightTimeout, pending,
                   elapsed>>
    /\ UNCHANGED UNTOUCHED

\* time passes, up to the moment the next timer is due
Tick ==
    /\ mutationRecords = {}
    /\ timers # {}
    /\ \A t \in timers : t.remaining >= TickMs
    /\ timers' = {[t EXCEPT !.remaining = @ - TickMs] : t \in timers}
    /\ elapsed' = elapsed + TickMs
    /\ call' = "tick"
    /\ ret' = "none"
    /\ args' = << >>
    /\ calls' = << >>
    /\ UNCHANGED <<matureWords, learningWords, highlightEnabled,
                   sentenceHighlightEnabled, isHighlighted,
                   isSentenceHighlighted, pageStats, highlightTimeout,
                   mutationRecords, body, pending, lastIndex>>
    /\ UNCHANGED UNTOUCHED

NextCoordinator ==
    \/ Initialize
    \/ RefreshWords_reply
    \/ OnMessage_toggleHighlightNow
    \/ Storage_onChanged
    \/ OnMessage_refreshHighlights
    \/ OnMessage_getPageStats
    \/ Page_appendChild
    \/ Page_removeChild
    \/ Observer_callback
    \/ Timeout_callback
    \/ Tick

SpecCoordinator == InitCoordinator /\ [][NextCoordinator]_vars

-----------------------------------------------------------------------------
(* C25                                                                     *)

Ran(name) == \E k \in 1..Len(calls) : calls[k] = name

\* C25: in every reachable state of the content coordinator, isHighlighted
\* implies highlightEnabled; no event re-highlights the page after word
\* highlighting was disabled, a debounce timer scheduled before the disable
\* included.
C25_HighlightedImpliesEnabled == isHighlighted => highlightEnabled

\* the debounce timer's pass highlights the page while word highlighting is
\* disabled
C25_TimerHighlightsWhileDisabled ==
    /\ call = "highlightTimeout"
    /\ Ran("highlightWords")
    /\ ~highlightEnabled
    /\ isHighlighted
    /\ \E i \in 1..Len(body) : body[i].wordHighlight.applied

-----------------------------------------------------------------------------
(* C28                                                                     *)

NoSentenceCounts ==
    pageStats.i1Sentences = 0 /\ pageStats.potentiallyI1Sentences = 0

\* C28: whenever sentence highlights are not applied (isSentenceHighlighted
\* is false, or sentence highlighting is disabled), pageStats.i1Sentences and
\* pageStats.potentiallyI1Sentences are 0, and the sentence counts never
\* stand next to a total that removeHighlights has reset to 0.
C28_NoCountsWithoutSentenceHighlights ==
    /\ (~isSentenceHighlighted \/ ~sentenceHighlightEnabled)
           => NoSentenceCounts
    /\ (calls # << >> /\ calls[Len(calls)] = "removeHighlights")
           => NoSentenceCounts

\* getPageStats reports sentence counts while no element of the page carries
\* a sentence highlight
C28_ReportsCountsOfRemovedHighlights ==
    /\ call = "getPageStats"
    /\ ~isSentenceHighlighted
    /\ ret.i1Sentences + ret.potentiallyI1Sentences > 0
    /\ \A i \in 1..Len(body) : body[i].sentenceHighlight.where = "none"

-----------------------------------------------------------------------------
(* C26                                                                     *)

\* C26: the DOM mutations made by the coordinator's own highlightWords and
\* removeHighlights do not schedule a further re-highlight pass, so that
\* re-highlighting comes to rest once the page stops changing.
C26_OwnMutationsScheduleNothing ==
    (call = "observer" /\ args.own) => ~args.shouldProcess

\* the observer has armed the debounce timer on the records of the
\* re-highlight pass itself
C26_PassRearmsItsTimer ==
    /\ call = "observer"
    /\ args.own
    /\ args.shouldProcess
    /\ \E t \in timers : t.id = highlightTimeout /\ t.remaining = DEBOUNCE_MS

-----------------------------------------------------------------------------
(* C23                                                                     *)

\* C23 as stated: at most one debounce timer is pending at any time, and the
\* timer of a burst of mutations runs the re-highlight pass, exactly
\* DEBOUNCE_MS after the last mutation of the burst.
C23_OnePassAfterBurst ==
    /\ Cardinality(timers) <= 1
    /\ call = "highlightTimeout"
           => elapsed = DEBOUNCE_MS /\ Ran("highlightWords")

\* C23, amended: at most one debounce timer is pending at any time, its
\* callback runs exactly DEBOUNCE_MS after the last mutation of the burst,
\* and the callback runs the re-highlight pass unless text is selected at
\* that moment.
C23_OneCallbackAfterBurst ==
    /\ Cardinality(timers) <= 1
    /\ call = "highlightTimeout"
           => /\ elapsed = DEBOUNCE_MS
              /\ Ran("highlightWords") <=> ~args.selection

\* a mutation of a burst has arrived while the timer of the one before it
\* was pending: that timer is gone and one timer with the full delay is
\* pending
C23_Witness ==
    /\ call = "observer"
    /\ args.shouldProcess
    /\ args.cleared
    /\ ~args.own
    /\ timers = {[id |-> highlightTimeout, remaining |-> DEBOUNCE_MS]}

\* the callback of a debounce timer has run the pass
C23_PassRan ==
    /\ call = "highlightTimeout"
    /\ ~args.selection
    /\ calls = <<"removeHighlights", "highlightWords",
                 "removeSentenceHighlights", "highlightSentences">>

-----------------------------------------------------------------------------
(* C24                                                                     *)

HebrewNodes == {i \in 1..Len(body) : TestHebrew(body[i].text)}

-----------------------------------------------------------------------------
(* C22                                                                     *)

\* the statistics of a page with n elements that hold the Hebrew text of
\* PageTexts, counted by hand for each vocabulary: the words are alef-dalet,
\* gimel-gimel and bet-alef-dalet; the first sentence is i+1 when exactly
\* one of alef-dalet and gimel-gimel is known, the second is potentially
\* i+1 when alef-dalet is known
ExpectedPageStats(mature, learning, n) ==
    LET knownWords == (IF <<1488, 1491>> \in mature THEN 1 ELSE 0)
                          + (IF <<1490, 1490>> \in learning THEN 1 ELSE 0)
    IN  IF n = 0
        THEN [total |-> 0, known |-> 0, unknown |-> 0,
              i1Sentences |-> 0, potentiallyI1Sentences |-> 0]
        ELSE [total |-> 3, known |-> knownWords, unknown |-> 3 - knownWords,
              i1Sentences |-> IF knownWords = 1 THEN n ELSE 0,
              potentiallyI1Sentences |->
                  IF <<1488, 1491>> \in mature THEN n ELSE 0]

VocabularyChanged ==
    /\ call = "storage.onChanged"
    /\ args.matureWords.changed \/ args.learningWords.changed

=============================================================================
